---- MODULE Spec2Model ----
(***************************************************************************)
(* The auction ledger of cogs/auctions.py (class AuctionSystem): the       *)
(* in-memory document self.data, its persisted copy, the per-auction       *)
(* asyncio timer tasks and bid locks, and the command handlers.            *)
(*                                                                         *)
(* The cog runs on one asyncio event loop, so a handler runs without       *)
(* interruption from one await to the next.  Each action below is one such *)
(* segment: it starts where a handler is entered or resumed and ends at    *)
(* the handler's next await (or its return).                               *)
(***************************************************************************)
EXTENDS Integers, Sequences, FiniteSets, TLC

\* ---------------------------------------------------------------- constants
STARTING_COINS == 1000
DEFAULT_MIN_BID == 10
DEFAULT_NEXT_AID == 11500

\* ------------------------------------------------------------------- bounds
MaxTime == 1
MaxWaiters == 1
MaxGrants == 2
MaxOrphans == 1
MaxTasks == 3

Users == {"A", "B"}
BidAmounts == {9, 10, 50, 54, 55, 60}
Durations == {1}
MinBidInputs == {0, 50}
Pokemon == "Gholdengo"

\* the ids of the first two auctions of a fresh store
AuctionIds == {DEFAULT_NEXT_AID, DEFAULT_NEXT_AID + 1}

VARIABLES
    data,       \* self.data: coins, inventory, auctions, next_aid, banned
    disk,       \* the document in DATA_FILE
    tasks,      \* self.tasks: auction id -> index of its task in timers
    timers,     \* every asyncio task created for _wait_and_close, in creation order
    bid_locks,  \* self.bid_locks: auction id -> asyncio.Lock (locked, waiters)
    now,        \* now_ts()
    response,   \* the outcome the last segment reported to its caller
    granted,    \* history: auction id -> number of item grants made for it
    refunded,   \* history: auction id -> number of cancellation refunds made for it
    last_aid,   \* history: the last id next_aid() returned, 0 before the first
    orphans     \* asyncio.Lock objects no longer in self.bid_locks, still in use

vars == <<data, disk, tasks, timers, bid_locks, now, response, granted, refunded,
          last_aid, orphans>>

EmptyMap == [x \in {} |-> 0]

\* the sum of f[x] over x in S
RECURSIVE Sum(_, _)
Sum(f, S) ==
    IF S = {} THEN 0
    ELSE LET x == CHOOSE y \in S : TRUE
         IN  f[x] + Sum(f, S \ {x})

\* top_bid = None.  The "ts" of a top bid, like the "received_ts" of an item
\* grant and the "created_ts" of an auction, is written and never read by the
\* cog; the records here carry the fields the cog reads.
NoBid == [user_id |-> "", amount |-> 0]

DEFAULT_STATE ==
    [coins |-> EmptyMap, inventory |-> EmptyMap, auctions |-> EmptyMap,
     next_aid |-> DEFAULT_NEXT_AID, banned |-> {}]

\* ------------------------------------------------------------- persistence
load_data(file) == file

save_data(d) == d

\* ---------------------------------------------------------------- utilities
Log2Floor(n) == CHOOSE e \in 0..30 : 2^e <= n /\ n < 2^(e+1)

(***************************************************************************)
(* math.ceil(last_bid * 1.10) in IEEE-754 double arithmetic.  The literal  *)
(* 1.10 is the double 11/10 + 4/(10 * 2^52).  With 11*last_bid = 10*a + r  *)
(* the exact product lies in [a, a+1), in the binade 2^E with              *)
(* E = Log2Floor(a), where doubles are 2^(E-52) apart.  When r # 0 the     *)
(* product rounds to a double strictly between a and a+1, whose ceiling is *)
(* a+1.  When r = 0 the product exceeds the integer a by                   *)
(* 4*last_bid/(10 * 2^52), which is (8*last_bid)/(10 * 2^E) half-spacings: *)
(* above one half-spacing the product rounds up to the next double after   *)
(* a, whose ceiling is a+1; at or below it (ties go to the even            *)
(* significand, which is a's) it rounds to a.                              *)
(***************************************************************************)
CeilTimes110(last_bid) ==
    LET a == (11 * last_bid) \div 10
        r == (11 * last_bid) % 10
        E == Log2Floor(a)
    IN  IF r # 0 THEN a + 1
        ELSE IF 8 * last_bid > 10 * 2^E THEN a + 1
        ELSE a

\* a faulty variant of min_required_after: the last bid is not looked at
min_required_after_Floor(last_bid, min_bid) == min_bid

\* a faulty variant of min_required_after: any raise of one coin is enough
min_required_after_PlusOne(last_bid, min_bid) ==
    IF last_bid <= 0 THEN min_bid ELSE last_bid + 1

min_required_after(last_bid, min_bid) ==
    IF last_bid <= 0 THEN min_bid ELSE CeilTimes110(last_bid)

\* ------------------------------------------------------ balances, inventory
get_balance(d, user_id) ==
    IF user_id \in DOMAIN d.coins THEN d.coins[user_id] ELSE STARTING_COINS

add_balance(d, user_id, delta) ==
    save_data([d EXCEPT !.coins =
        (user_id :> (get_balance(d, user_id) + delta)) @@ d.coins])

get_inventory(d, user_id) ==
    IF user_id \in DOMAIN d.inventory THEN d.inventory[user_id] ELSE <<>>

add_inventory(d, user_id, pokemon, unique_id) ==
    save_data([d EXCEPT !.inventory =
        (user_id :> Append(get_inventory(d, user_id),
                           [pokemon |-> pokemon, unique_id |-> unique_id]))
        @@ d.inventory])

\* ------------------------------------------------------------ auction model
HasAuction(d, auction_id) == auction_id \in DOMAIN d.auctions

save_auction(d, auc) ==
    save_data([d EXCEPT !.auctions = (auc.auction_id :> auc) @@ d.auctions])

active_auctions(d) ==
    {a \in DOMAIN d.auctions : ~d.auctions[a].is_closed}

NewAuction(aid, unique_id, end_ts, minv) ==
    [auction_id |-> aid, pokemon |-> Pokemon, unique_id |-> unique_id,
     end_ts |-> end_ts, min_bid |-> minv, top_bid |-> NoBid,
     bids_received |-> 0, is_closed |-> FALSE]

\* ------------------------------------------------------------------- tasks
NewTask(aid, wake) == [aid |-> aid, wake |-> wake, state |-> "pending"]

\* t.cancel() when t is not done
CancelTask(ts, i) ==
    IF ts[i].state = "pending" THEN [ts EXCEPT ![i].state = "cancelled"] ELSE ts

\* `t = self.tasks.get(id); if t and not t.done(): t.cancel()`
CancelTaskOf(tk, ts, id) ==
    IF id \in DOMAIN tk THEN CancelTask(ts, tk[id]) ELSE ts

\* ---------------------------------------------------------------- responses
\* `prev` is the handler's prev_bidder_id, "" for None
Resp(op, kind, user, aid, amount, required) ==
    [op |-> op, kind |-> kind, user |-> user, aid |-> aid,
     amount |-> amount, required |-> required, prev |-> ""]

NoResponse == Resp("none", "none", "", 0, 0, 0)

Init ==
    /\ data = load_data(DEFAULT_STATE)
    /\ disk = DEFAULT_STATE
    /\ tasks = EmptyMap
    /\ timers = <<>>
    /\ bid_locks = EmptyMap
    /\ now = 0
    /\ response = NoResponse
    /\ granted = [a \in AuctionIds |-> 0]
    /\ refunded = [a \in AuctionIds |-> 0]
    /\ last_aid = 0
    /\ orphans = <<>>

\* ------------------------------------------------------------- settlement
(***************************************************************************)
(* settle_auction up to its first await: mark closed and save, then award  *)
(* the item to the top bidder, if any.                                     *)
(***************************************************************************)
\* a faulty variant of settle_auction: the winner is charged at settlement
settle_auction_Charges(d, id) ==
    LET auc == [d.auctions[id] EXCEPT !.is_closed = TRUE]
        d1 == save_auction(d, auc)
        winner == auc.top_bid
    IN  IF winner # NoBid
        THEN add_inventory(add_balance(d1, winner.user_id, -winner.amount),
                           winner.user_id, auc.pokemon, auc.unique_id)
        ELSE d1

\* a faulty variant of settle_auction: the item is awarded, is_closed not set
settle_auction_LeavesOpen(d, id) ==
    LET auc == d.auctions[id]
        winner == auc.top_bid
    IN  IF winner # NoBid
        THEN add_inventory(d, winner.user_id, auc.pokemon, auc.unique_id)
        ELSE d

settle_auction(d, id) ==
    LET auc == [d.auctions[id] EXCEPT !.is_closed = TRUE]
        d1 == save_auction(d, auc)
        winner == auc.top_bid
    IN  IF winner # NoBid
        THEN add_inventory(d1, winner.user_id, auc.pokemon, auc.unique_id)
        ELSE d1

\* 1 when the auction has a top bid (`if winner:`, `if top:`), else 0
Awarded(d, id) == IF d.auctions[id].top_bid # NoBid THEN 1 ELSE 0

\* ------------------------------------------------------------------ bidding
(***************************************************************************)
(* The body of `async with lock:` in auction_bid.  It has no await on the  *)
(* path that accepts the bid; every rejection awaits its send_message      *)
(* while the lock is still held.                                           *)
(***************************************************************************)
\* a faulty variant of ApplyBid: the previous top bidder is not refunded
ApplyBid_LostRefund(d, auc, user, amount) ==
    save_auction(add_balance(d, user, -amount),
        [auc EXCEPT !.top_bid = [user_id |-> user, amount |-> amount],
                    !.bids_received = @ + 1])

\* refund the previous bidder, escrow the new one, record the bid, save
ApplyBid(d, auc, user, amount) ==
    LET top == auc.top_bid
        d1 == IF top # NoBid
              THEN add_balance(d, top.user_id, top.amount)
              ELSE d
        d2 == add_balance(d1, user, -amount)
    IN  save_auction(d2,
            [auc EXCEPT !.top_bid = [user_id |-> user, amount |-> amount],
                        !.bids_received = @ + 1])

\* a faulty variant of BidCritical: is_closed is not looked at
BidCritical_IgnoresClosed(d, user, id, amount) ==
    IF ~HasAuction(d, id)
    THEN [kind |-> "invalid_or_closed", required |-> 0, data |-> d]
    ELSE
        LET auc == d.auctions[id]
            top == auc.top_bid
            current == IF top # NoBid THEN top.amount ELSE 0
            required == min_required_after(current, auc.min_bid)
        IN  IF amount < required
            THEN [kind |-> "too_low", required |-> required, data |-> d]
            ELSE IF amount > get_balance(d, user)
            THEN [kind |-> "insufficient", required |-> 0, data |-> d]
            ELSE [kind |-> "accepted", required |-> 0,
                  data |-> ApplyBid(d, auc, user, amount)]

\* a faulty variant of BidCritical: the balance is tested before the raise
BidCritical_FundsFirst(d, user, id, amount) ==
    IF ~HasAuction(d, id) \/ d.auctions[id].is_closed
    THEN [kind |-> "invalid_or_closed", required |-> 0, data |-> d]
    ELSE
        LET auc == d.auctions[id]
            top == auc.top_bid
            current == IF top # NoBid THEN top.amount ELSE 0
            required == min_required_after(current, auc.min_bid)
        IN  IF amount > get_balance(d, user)
            THEN [kind |-> "insufficient", required |-> 0, data |-> d]
            ELSE IF amount < required
            THEN [kind |-> "too_low", required |-> required, data |-> d]
            ELSE [kind |-> "accepted", required |-> 0,
                  data |-> ApplyBid(d, auc, user, amount)]

\* a faulty variant of BidCritical: a bid that is too low is counted
BidCritical_CountsRejected(d, user, id, amount) ==
    IF ~HasAuction(d, id) \/ d.auctions[id].is_closed
    THEN [kind |-> "invalid_or_closed", required |-> 0, data |-> d]
    ELSE
        LET auc == [d.auctions[id] EXCEPT !.bids_received = @ + 1]
            top == auc.top_bid
            current == IF top # NoBid THEN top.amount ELSE 0
            required == min_required_after(current, auc.min_bid)
        IN  IF amount < required
            THEN [kind |-> "too_low", required |-> required,
                  data |-> save_auction(d, auc)]
            ELSE IF amount > get_balance(d, user)
            THEN [kind |-> "insufficient", required |-> 0, data |-> d]
            ELSE [kind |-> "accepted", required |-> 0,
                  data |-> ApplyBid(d, d.auctions[id], user, amount)]

\* a faulty variant of BidCritical: the bidder's own escrow counts as funds
BidCritical_CountsEscrow(d, user, id, amount) ==
    IF ~HasAuction(d, id) \/ d.auctions[id].is_closed
    THEN [kind |-> "invalid_or_closed", required |-> 0, data |-> d]
    ELSE
        LET auc == d.auctions[id]
            top == auc.top_bid
            current == IF top # NoBid THEN top.amount ELSE 0
            required == min_required_after(current, auc.min_bid)
            own == IF top.user_id = user THEN top.amount ELSE 0
        IN  IF amount < required
            THEN [kind |-> "too_low", required |-> required, data |-> d]
            ELSE IF amount > get_balance(d, user) + own
            THEN [kind |-> "insufficient", required |-> 0, data |-> d]
            ELSE [kind |-> "accepted", required |-> 0,
                  data |-> ApplyBid(d, auc, user, amount)]

\* a faulty variant of BidCritical: the balance is not looked at
BidCritical_NoFundsCheck(d, user, id, amount) ==
    IF ~HasAuction(d, id) \/ d.auctions[id].is_closed
    THEN [kind |-> "invalid_or_closed", required |-> 0, data |-> d]
    ELSE
        LET auc == d.auctions[id]
            top == auc.top_bid
            current == IF top # NoBid THEN top.amount ELSE 0
            required == min_required_after(current, auc.min_bid)
        IN  IF amount < required
            THEN [kind |-> "too_low", required |-> required, data |-> d]
            ELSE [kind |-> "accepted", required |-> 0,
                  data |-> ApplyBid(d, auc, user, amount)]

BidCritical(d, user, id, amount) ==
    IF ~HasAuction(d, id) \/ d.auctions[id].is_closed
    THEN [kind |-> "invalid_or_closed", required |-> 0, data |-> d]
    ELSE
        LET auc == d.auctions[id]
            min_bid == auc.min_bid
            top == auc.top_bid
            current == IF top # NoBid THEN top.amount ELSE 0
            required == min_required_after(current, min_bid)
        IN  IF amount < required
            THEN [kind |-> "too_low", required |-> required, data |-> d]
            ELSE IF amount > get_balance(d, user)
            THEN [kind |-> "insufficient", required |-> 0, data |-> d]
            ELSE [kind |-> "accepted", required |-> 0,
                  data |-> ApplyBid(d, auc, user, amount)]

NewLock == [locked |-> FALSE, waiters |-> <<>>]

\* the number of bid handlers suspended in Lock.acquire
Waiting ==
    Sum([id \in DOMAIN bid_locks |-> Len(bid_locks[id].waiters)],
        DOMAIN bid_locks)
    + Sum([i \in DOMAIN orphans |-> Len(orphans[i].waiters)], DOMAIN orphans)

\* a faulty variant of LockOf: one lock serves every auction
LockOf_Shared(id) ==
    IF DOMAIN bid_locks = {} THEN NewLock
    ELSE bid_locks[CHOOSE x \in DOMAIN bid_locks :
                      \A y \in DOMAIN bid_locks : x <= y]

\* self.bid_locks.setdefault(id, asyncio.Lock())
LockOf(id) == IF id \in DOMAIN bid_locks THEN bid_locks[id] ELSE NewLock

(***************************************************************************)
(* A handler that holds the lock of `id` runs the critical section.  An    *)
(* accepted bid leaves the section in the same segment, which releases the *)
(* lock; a rejected one stays in it, awaiting its send_message.            *)
(***************************************************************************)
EnterCritical(op, user, id, amount) ==
    LET out == BidCritical(data, user, id, amount)
        prev_bidder_id == IF out.kind = "accepted"
                          THEN data.auctions[id].top_bid.user_id
                          ELSE ""
    IN  /\ data' = out.data
        /\ disk' = IF out.kind = "accepted" THEN out.data ELSE disk
        /\ response' = [Resp(op, out.kind, user, id, amount, out.required)
                            EXCEPT !.prev = prev_bidder_id]

\* the lock after the segment EnterCritical: held while a rejection is sent
LockAfter(user, id, amount, waiting) ==
    [locked |-> BidCritical(data, user, id, amount).kind # "accepted",
     waiters |-> waiting]

\* a faulty variant of IsBanned: the ban list is never consulted
IsBanned_Never(d, user) == FALSE

\* `interaction.user.id in self.data.get("banned", [])`
IsBanned(d, user) == user \in d.banned

\* auction_bid from its entry to its first await
auction_bid(user, id, amount) ==
    /\ IF amount <= 0
       THEN /\ response' = Resp("bid", "invalid_amount", user, id, amount, 0)
            /\ UNCHANGED <<data, disk, bid_locks>>
       ELSE IF IsBanned(data, user)
       THEN /\ response' = Resp("bid", "banned", user, id, amount, 0)
            /\ UNCHANGED <<data, disk, bid_locks>>
       ELSE LET lock == LockOf(id)
            IN  IF ~lock.locked /\ lock.waiters = <<>>
                THEN /\ EnterCritical("bid", user, id, amount)
                     /\ bid_locks' = (id :> LockAfter(user, id, amount, <<>>))
                                      @@ bid_locks
                ELSE /\ Waiting < MaxWaiters
                     /\ bid_locks' = (id :> [lock EXCEPT !.waiters =
                            Append(@, [user |-> user, amount |-> amount])])
                            @@ bid_locks
                     /\ response' = NoResponse
                     /\ UNCHANGED <<data, disk>>
    /\ UNCHANGED <<tasks, timers, now, granted, refunded, last_aid, orphans>>

\* Lock.acquire resumes in the first waiter once the lock has been released
bid_resume(id) ==
    /\ id \in DOMAIN bid_locks
    /\ ~bid_locks[id].locked
    /\ bid_locks[id].waiters # <<>>
    /\ LET w == Head(bid_locks[id].waiters)
       IN  /\ EnterCritical("bid_resumed", w.user, id, w.amount)
           /\ bid_locks' = [bid_locks EXCEPT ![id] =
                  LockAfter(w.user, id, w.amount, Tail(bid_locks[id].waiters))]
    /\ UNCHANGED <<tasks, timers, now, granted, refunded, last_aid, orphans>>

\* a faulty variant of bid_reply_sent: the handler ends and keeps the lock
bid_reply_sent_KeepsLock(id) ==
    /\ id \in DOMAIN bid_locks
    /\ bid_locks[id].locked
    /\ response' = NoResponse
    /\ UNCHANGED <<data, disk, tasks, timers, bid_locks, now, granted, refunded,
                   last_aid, orphans>>

\* a rejection's send_message completes and the handler leaves `async with`
bid_reply_sent(id) ==
    /\ id \in DOMAIN bid_locks
    /\ bid_locks[id].locked
    /\ bid_locks' = [bid_locks EXCEPT ![id].locked = FALSE]
    /\ response' = NoResponse
    /\ UNCHANGED <<data, disk, tasks, timers, now, granted, refunded, last_aid, orphans>>

\* a rejection's send_message raises: the exception leaves `async with`,
\* whose __aexit__ releases the lock
bid_reply_failed(id) ==
    /\ id \in DOMAIN bid_locks
    /\ bid_locks[id].locked
    /\ bid_locks' = [bid_locks EXCEPT ![id].locked = FALSE]
    /\ response' = Resp("bid_reply", "raised", "", id, 0, 0)
    /\ UNCHANGED <<data, disk, tasks, timers, now, granted, refunded, last_aid,
                   orphans>>

\* ----------------------------------------------------------- admin commands
\* a faulty variant of MinBidOf: the given floor is taken as it is
MinBidOf_Unchecked(min_bid) == min_bid

\* `int(min_bid) if (min_bid and min_bid > 0) else DEFAULT_MIN_BID`
MinBidOf(min_bid) == IF min_bid > 0 THEN min_bid ELSE DEFAULT_MIN_BID

\* a faulty variant of next_aid: the counter is not advanced
next_aid_Stuck(d) == [aid |-> d.next_aid, data |-> save_data(d)]

\* next_aid(): the id handed out, and the document with the counter advanced
next_aid(d) == [aid |-> d.next_aid,
                data |-> save_data([d EXCEPT !.next_aid = d.next_aid + 1])]

(***************************************************************************)
(* `if aid in self.tasks and not self.tasks[aid].done(): cancel` and then  *)
(* `self.tasks[aid] = asyncio.create_task(self._wait_and_close(aid))`.     *)
(* The new task first computes its delay from the auction's end_ts and     *)
(* then sleeps; it is recorded here with the time it wakes at.             *)
(***************************************************************************)
ScheduleTask(tk, ts, aid, wake) ==
    [tasks |-> (aid :> (Len(ts) + 1)) @@ tk,
     timers |-> Append(CancelTaskOf(tk, ts, aid), NewTask(aid, wake))]

\* `uid` is the Optional[int] argument: {} for None, {n} for the integer n
auction_start(uid, duration, min_bid) ==
    /\ LET end_ts == now + duration
           minv == MinBidOf(min_bid)
           n == next_aid(data)
           aid == n.aid
           unique_id == IF uid # {} THEN CHOOSE x \in uid : TRUE ELSE aid
           d1 == save_auction(n.data, NewAuction(aid, unique_id, end_ts, minv))
           sched == ScheduleTask(tasks, timers, aid, end_ts)
       IN  /\ data' = d1
           /\ disk' = d1
           /\ tasks' = sched.tasks
           /\ timers' = sched.timers
           /\ last_aid' = aid
           /\ response' = Resp("start", "started", "", aid, 0, 0)
    /\ UNCHANGED <<bid_locks, now, granted, refunded, orphans>>

\* a faulty variant of auction_close: no check that the auction is still open
auction_close_Unguarded(id) ==
    /\ HasAuction(data, id)
    /\ timers' = CancelTaskOf(tasks, timers, id)
    /\ data' = settle_auction(data, id)
    /\ disk' = data'
    /\ granted' = [granted EXCEPT ![id] = @ + Awarded(data, id)]
    /\ response' = Resp("close", "settled", "", id, 0, 0)
    /\ UNCHANGED <<tasks, bid_locks, now, refunded, last_aid, orphans>>

auction_close(id) ==
    /\ IF ~HasAuction(data, id)
       THEN /\ response' = Resp("close", "not_found", "", id, 0, 0)
            /\ UNCHANGED <<data, disk, timers, granted>>
       ELSE IF data.auctions[id].is_closed
       THEN /\ response' = Resp("close", "already_closed", "", id, 0, 0)
            /\ UNCHANGED <<data, disk, timers, granted>>
       ELSE /\ timers' = CancelTaskOf(tasks, timers, id)
            /\ data' = settle_auction(data, id)
            /\ disk' = data'
            /\ granted' = [granted EXCEPT ![id] = @ + Awarded(data, id)]
            /\ response' = Resp("close", "settled", "", id, 0, 0)
    /\ UNCHANGED <<tasks, bid_locks, now, refunded, last_aid, orphans>>

\* auction_cancel's ledger update: refund the top bidder, mark closed, save
\* a faulty variant of cancel_ledger: the auction is left open
cancel_ledger_KeepsOpen(d, id) ==
    LET top == d.auctions[id].top_bid
    IN  IF top # NoBid THEN add_balance(d, top.user_id, top.amount) ELSE d

\* a faulty variant of cancel_ledger: the top bidder is not refunded
cancel_ledger_NoRefund(d, id) ==
    save_auction(d, [d.auctions[id] EXCEPT !.is_closed = TRUE])

cancel_ledger(d, id) ==
    LET auc == d.auctions[id]
        top == auc.top_bid
        d1 == IF top # NoBid
              THEN add_balance(d, top.user_id, top.amount)
              ELSE d
    IN  save_auction(d1, [auc EXCEPT !.is_closed = TRUE])

auction_cancel(id) ==
    /\ IF ~HasAuction(data, id)
       THEN /\ response' = Resp("cancel", "not_found", "", id, 0, 0)
            /\ UNCHANGED <<data, disk, timers, refunded>>
       ELSE IF data.auctions[id].is_closed
       THEN /\ response' = Resp("cancel", "already_closed", "", id, 0, 0)
            /\ UNCHANGED <<data, disk, timers, refunded>>
       ELSE /\ data' = cancel_ledger(data, id)
            /\ disk' = data'
            /\ timers' = CancelTaskOf(tasks, timers, id)
            /\ refunded' = [refunded EXCEPT ![id] = @ + Awarded(data, id)]
            /\ response' = Resp("cancel", "cancelled", "", id, 0, 0)
    /\ UNCHANGED <<tasks, bid_locks, now, granted, last_aid, orphans>>

\* ------------------------------------------------------------- timer tasks
(***************************************************************************)
(* _wait_and_close after its asyncio.sleep: the task wakes once the clock  *)
(* has reached its wake time, reads the auction again and settles it       *)
(* unless it is gone or closed.                                            *)
(***************************************************************************)
wait_and_close(i) ==
    /\ i \in DOMAIN timers
    /\ timers[i].state = "pending"
    /\ now >= timers[i].wake
    /\ LET id == timers[i].aid
       IN  IF ~HasAuction(data, id) \/ data.auctions[id].is_closed
           THEN /\ response' = Resp("timer", "skipped", "", id, 0, 0)
                /\ UNCHANGED <<data, disk, granted>>
           ELSE /\ data' = settle_auction(data, id)
                /\ disk' = data'
                /\ granted' = [granted EXCEPT ![id] = @ + Awarded(data, id)]
                /\ response' = Resp("timer", "settled", "", id, 0, 0)
    /\ timers' = [timers EXCEPT ![i].state = "done"]
    /\ UNCHANGED <<tasks, bid_locks, now, refunded, last_aid, orphans>>

\* ---------------------------------------------------------------- recovery
\* a faulty variant of Recoverable: closed auctions are re-armed too
Recoverable_IgnoresClosed(auc, cur) == auc.end_ts > cur

\* `not raw.get("is_closed") and float(raw.get("end_ts", 0)) > cur`
Recoverable(auc, cur) == ~auc.is_closed /\ auc.end_ts > cur

Min(S) == CHOOSE x \in S : \A y \in S : x <= y

(***************************************************************************)
(* recover_tasks over the auctions `ids` of d, in the order of the         *)
(* document (ascending id): a task for each recoverable auction that has   *)
(* no task yet, or whose task is done.                                     *)
(***************************************************************************)
RECURSIVE recover_tasks(_, _, _, _, _)
recover_tasks(d, ids, cur, tk, ts) ==
    IF ids = {} THEN [tasks |-> tk, timers |-> ts]
    ELSE LET aid == Min(ids)
             raw == d.auctions[aid]
             arm == /\ Recoverable(raw, cur)
                    /\ \/ aid \notin DOMAIN tk
                       \/ ts[tk[aid]].state # "pending"
         IN  IF arm
             THEN recover_tasks(d, ids \ {aid}, cur,
                                (aid :> (Len(ts) + 1)) @@ tk,
                                Append(ts, NewTask(aid, raw.end_ts)))
             ELSE recover_tasks(d, ids \ {aid}, cur, tk, ts)

(***************************************************************************)
(* The process stops between two segments and the cog is constructed       *)
(* again: AuctionSystem.__init__ loads the document, starts with no tasks  *)
(* and no locks, and calls recover_tasks.  The tasks and the suspended     *)
(* handlers of the old process are gone.                                   *)
(***************************************************************************)
restart ==
    /\ LET d == load_data(disk)
           r == recover_tasks(d, DOMAIN d.auctions, now, EmptyMap, <<>>)
       IN  /\ data' = d
           /\ tasks' = r.tasks
           /\ timers' = r.timers
    /\ bid_locks' = EmptyMap
    /\ response' = Resp("restart", "recovered", "", 0, 0, 0)
    /\ orphans' = <<>>
    /\ UNCHANGED <<disk, now, granted, refunded, last_aid>>

\* the number of item grants in all inventories
Grants(d) ==
    Sum([u \in DOMAIN d.inventory |-> Len(d.inventory[u])], DOMAIN d.inventory)

\* settle_auction called on the record of auction `id`, whatever its status
settle_call(id) ==
    /\ HasAuction(data, id)
    /\ Grants(data) < MaxGrants
    /\ data' = settle_auction(data, id)
    /\ disk' = data'
    /\ granted' = [granted EXCEPT ![id] = @ + Awarded(data, id)]
    /\ response' = Resp("settle", "settled", "", id, 0, 0)
    /\ UNCHANGED <<tasks, timers, bid_locks, now, refunded, last_aid, orphans>>

\* --------------------------------------------------- balances and ban list
set_balance(d, user_id, amount) ==
    save_data([d EXCEPT !.coins = (user_id :> amount) @@ d.coins])

add_coins(member, amount) ==
    /\ IF amount = 0
       THEN /\ response' = Resp("add_coins", "zero", member, 0, amount, 0)
            /\ UNCHANGED <<data, disk>>
       ELSE /\ data' = add_balance(data, member, amount)
            /\ disk' = data'
            /\ response' = Resp("add_coins", "added", member, 0, amount, 0)
    /\ UNCHANGED <<tasks, timers, bid_locks, now, granted, refunded, last_aid, orphans>>

set_coins(member, amount) ==
    /\ data' = set_balance(data, member, amount)
    /\ disk' = data'
    /\ response' = Resp("set_coins", "set", member, 0, amount, 0)
    /\ UNCHANGED <<tasks, timers, bid_locks, now, granted, refunded, last_aid, orphans>>

\* self.data["banned"] is a list without duplicates, read for membership only
ban(member) ==
    /\ IF member \notin data.banned
       THEN /\ data' = save_data([data EXCEPT !.banned = @ \cup {member}])
            /\ disk' = data'
       ELSE UNCHANGED <<data, disk>>
    /\ response' = Resp("ban", "banned", member, 0, 0, 0)
    /\ UNCHANGED <<tasks, timers, bid_locks, now, granted, refunded, last_aid, orphans>>

\* a faulty variant of unban: the list is changed in memory and not saved
unban_Unsaved(member) ==
    /\ IF member \in data.banned
       THEN /\ data' = [data EXCEPT !.banned = @ \ {member}]
            /\ response' = Resp("unban", "unbanned", member, 0, 0, 0)
       ELSE /\ response' = Resp("unban", "not_banned", member, 0, 0, 0)
            /\ data' = data
    /\ UNCHANGED <<disk, tasks, timers, bid_locks, now, granted, refunded,
                   last_aid, orphans>>

unban(member) ==
    /\ IF member \in data.banned
       THEN /\ data' = save_data([data EXCEPT !.banned = @ \ {member}])
            /\ disk' = data'
            /\ response' = Resp("unban", "unbanned", member, 0, 0, 0)
       ELSE /\ response' = Resp("unban", "not_banned", member, 0, 0, 0)
            /\ UNCHANGED <<data, disk>>
    /\ UNCHANGED <<tasks, timers, bid_locks, now, granted, refunded, last_aid, orphans>>

\* ------------------------------------------------------------ batch creation
(***************************************************************************)
(* _create_auctions_for_names: for each name in turn, take the next id,    *)
(* save the auction and start its task.  The loop has no await.            *)
(***************************************************************************)
RECURSIVE create_auctions_for_names(_, _, _, _, _, _, _)
create_auctions_for_names(d, tk, ts, names, end_ts, min_bid, created_ids) ==
    IF names = <<>>
    THEN [data |-> d, tasks |-> tk, timers |-> ts, created_ids |-> created_ids]
    ELSE LET n == next_aid(d)
             aid == n.aid
             auc == [NewAuction(aid, aid, end_ts, min_bid)
                        EXCEPT !.pokemon = Head(names)]
             sched == ScheduleTask(tk, ts, aid, end_ts)
         IN  create_auctions_for_names(save_auction(n.data, auc),
                 sched.tasks, sched.timers, Tail(names), end_ts, min_bid,
                 Append(created_ids, aid))

\* auction_start_copies, with `copies` the list expand_copies returned
auction_start_copies(copies, duration, min_bid) ==
    /\ IF copies = <<>>
       THEN /\ response' = Resp("start_copies", "invalid", "", 0, 0, 0)
            /\ UNCHANGED <<data, disk, tasks, timers, last_aid>>
       ELSE LET end_ts == now + duration
                minv == MinBidOf(min_bid)
                r == create_auctions_for_names(data, tasks, timers, copies,
                                               end_ts, minv, <<>>)
            IN  /\ data' = r.data
                /\ disk' = r.data
                /\ tasks' = r.tasks
                /\ timers' = r.timers
                /\ last_aid' = r.created_ids[Len(r.created_ids)]
                /\ response' = Resp("start_copies", "started", "",
                                    r.created_ids[1], Len(r.created_ids), 0)
    /\ UNCHANGED <<bid_locks, now, granted, refunded, orphans>>

(***************************************************************************)
(* The process is killed in auction_start after next_aid() has saved the   *)
(* advanced counter and before save_auction, and the cog is constructed    *)
(* again from the persisted document.                                      *)
(***************************************************************************)
crash_in_start ==
    /\ LET n == next_aid(data)
           d == load_data(n.data)
           r == recover_tasks(d, DOMAIN d.auctions, now, EmptyMap, <<>>)
       IN  /\ disk' = n.data
           /\ data' = d
           /\ tasks' = r.tasks
           /\ timers' = r.timers
           /\ last_aid' = n.aid
    /\ bid_locks' = EmptyMap
    /\ orphans' = <<>>
    /\ response' = Resp("restart", "crashed_in_start", "", 0, 0, 0)
    /\ UNCHANGED <<now, granted, refunded>>

\* -------------------------------------------------------------------- reset
\* a faulty variant of CancelAllTasks: the timer tasks are left running
CancelAllTasks_None(tk, ts) == ts

\* `for t in list(self.tasks.values()): if t and not t.done(): t.cancel()`
CancelAllTasks(tk, ts) ==
    [i \in DOMAIN ts |->
        IF (\E id \in DOMAIN tk : tk[id] = i) /\ ts[i].state = "pending"
        THEN [ts[i] EXCEPT !.state = "cancelled"]
        ELSE ts[i]]

(***************************************************************************)
(* self.bid_locks.clear() drops the cog's references to the locks; a       *)
(* handler that holds one of them or waits for it keeps the Lock object.   *)
(* Detach appends those locks of `locks` (ids in `ids`, ascending) that    *)
(* are still in use to `os`.                                               *)
(***************************************************************************)
RECURSIVE Detach(_, _, _)
Detach(os, locks, ids) ==
    IF ids = {} THEN os
    ELSE LET id == Min(ids)
             l == locks[id]
         IN  IF l.locked \/ l.waiters # <<>>
             THEN Detach(Append(os, [id |-> id, locked |-> l.locked,
                                     waiters |-> l.waiters]),
                         locks, ids \ {id})
             ELSE Detach(os, locks, ids \ {id})

auction_reset_all(confirm) ==
    /\ IF confirm # "CONFIRM"
       THEN /\ response' = Resp("reset", "unconfirmed", "", 0, 0, 0)
            /\ UNCHANGED <<data, disk, tasks, timers, bid_locks, orphans>>
       ELSE /\ Len(Detach(orphans, bid_locks, DOMAIN bid_locks)) <= MaxOrphans
            /\ timers' = CancelAllTasks(tasks, timers)
            /\ tasks' = EmptyMap
            /\ orphans' = Detach(orphans, bid_locks, DOMAIN bid_locks)
            /\ bid_locks' = EmptyMap
            /\ data' = DEFAULT_STATE
            /\ disk' = save_data(DEFAULT_STATE)
            /\ response' = Resp("reset", "reset", "", 0, 0, 0)
    /\ UNCHANGED <<now, granted, refunded, last_aid>>

\* the sequence s without its i-th element
RemoveAt(s, i) == SubSeq(s, 1, i - 1) \o SubSeq(s, i + 1, Len(s))

\* the detached locks after lock i becomes l: a lock nobody uses is dropped
OrphansAfter(i, l) ==
    IF l.locked \/ l.waiters # <<>>
    THEN [orphans EXCEPT ![i] = l]
    ELSE RemoveAt(orphans, i)

\* Lock.acquire resumes in the first waiter of a detached lock
orphan_resume(i) ==
    /\ i \in DOMAIN orphans
    /\ ~orphans[i].locked
    /\ orphans[i].waiters # <<>>
    /\ LET w == Head(orphans[i].waiters)
           id == orphans[i].id
           l == LockAfter(w.user, id, w.amount, Tail(orphans[i].waiters))
       IN  /\ EnterCritical("bid_resumed", w.user, id, w.amount)
           /\ orphans' = OrphansAfter(i, [id |-> id, locked |-> l.locked,
                                          waiters |-> l.waiters])
    /\ UNCHANGED <<tasks, timers, bid_locks, now, granted, refunded, last_aid>>

\* a rejection's send_message completes in the holder of a detached lock
orphan_reply_sent(i) ==
    /\ i \in DOMAIN orphans
    /\ orphans[i].locked
    /\ orphans' = OrphansAfter(i, [orphans[i] EXCEPT !.locked = FALSE])
    /\ response' = NoResponse
    /\ UNCHANGED <<data, disk, tasks, timers, bid_locks, now, granted, refunded,
                   last_aid>>

Tick ==
    /\ now < MaxTime
    /\ now' = now + 1
    /\ response' = NoResponse
    /\ UNCHANGED <<data, disk, tasks, timers, bid_locks, granted, refunded, last_aid, orphans>>

\* ------------------------------------------------------------ specifications
FirstId == {DEFAULT_NEXT_AID}

(***************************************************************************)
(* Spec: the life of one auction under every interleaving of bid handlers, *)
(* admin close, admin cancel and the auction's timer task.                 *)
(***************************************************************************)
Next ==
    \/ data.next_aid \in FirstId /\
          \E dur \in Durations, mb \in MinBidInputs : auction_start({}, dur, mb)
    \/ \E u \in Users, id \in FirstId, amt \in BidAmounts : auction_bid(u, id, amt)
    \/ \E id \in FirstId : bid_resume(id)
    \/ \E id \in FirstId : bid_reply_sent(id)
    \/ \E id \in FirstId : auction_close(id)
    \/ \E id \in FirstId : auction_cancel(id)
    \/ \E i \in DOMAIN timers : wait_and_close(i)
    \/ Tick

Spec == Init /\ [][Next]_vars

(***************************************************************************)
(* SpecLedger: bids and cancellations on several auctions, with no         *)
(* settlement: the clock stands still, so no timer task wakes.             *)
(***************************************************************************)
LedgerAmounts == {10, 50}

NextLedger ==
    \/ data.next_aid \in AuctionIds /\ \E dur \in Durations : auction_start({}, dur, 0)
    \/ \E u \in Users, id \in AuctionIds, amt \in LedgerAmounts : auction_bid(u, id, amt)
    \/ \E id \in AuctionIds : bid_resume(id)
    \/ \E id \in AuctionIds : bid_reply_sent(id)
    \/ \E id \in AuctionIds : auction_cancel(id)

SpecLedger == Init /\ [][NextLedger]_vars

(***************************************************************************)
(* SpecRestart: two auctions, their timers, the clock, and restarts of the *)
(* process.                                                                *)
(***************************************************************************)
RestartAmounts == {10}
RestartBidders == {"A"}

NextRestart ==
    \/ data.next_aid \in AuctionIds /\ \E dur \in Durations : auction_start({}, dur, 0)
    \/ \E u \in RestartBidders, id \in AuctionIds, amt \in RestartAmounts : auction_bid(u, id, amt)
    \/ \E id \in AuctionIds : bid_resume(id)
    \/ \E id \in AuctionIds : bid_reply_sent(id)
    \/ \E id \in AuctionIds : auction_cancel(id)
    \/ \E i \in DOMAIN timers : wait_and_close(i)
    \/ Tick
    \/ restart

SpecRestart == Init /\ [][NextRestart]_vars

(***************************************************************************)
(* SpecSettle: settle_auction called directly, any number of times, on the *)
(* record of an auction that takes bids.                                   *)
(***************************************************************************)
SettleAmounts == {10, 50}

NextSettle ==
    \/ data.next_aid \in FirstId /\ \E dur \in Durations : auction_start({}, dur, 0)
    \/ \E u \in Users, id \in FirstId, amt \in SettleAmounts : auction_bid(u, id, amt)
    \/ \E id \in FirstId : bid_resume(id)
    \/ \E id \in FirstId : bid_reply_sent(id)
    \/ \E id \in FirstId : settle_call(id)

SpecSettle == Init /\ [][NextSettle]_vars

(***************************************************************************)
(* SpecBids: every outcome of auction_bid.  One auction is created; bids   *)
(* also name an id that no auction has.  Admins ban and unban bidders and  *)
(* edit balances, and cancel the auction.                                  *)
(***************************************************************************)
OfferedAmounts == {-5, 0, 9, 10, 11}
CoinDeltas == {-1001, 0}
CoinAmounts == {-5, 5}
Members == {"A"}

NextBids ==
    \/ data.next_aid \in FirstId /\ \E dur \in Durations : auction_start({}, dur, 0)
    \/ \E u \in Members, id \in AuctionIds, amt \in OfferedAmounts : auction_bid(u, id, amt)
    \/ \E id \in AuctionIds : bid_resume(id)
    \/ \E id \in AuctionIds : bid_reply_sent(id)
    \/ \E id \in FirstId : auction_cancel(id)
    \/ \E u \in Members : ban(u)
    \/ \E u \in Members : unban(u)
    \/ \E u \in Members, amt \in CoinDeltas :
          get_balance(data, u) \in 0..STARTING_COINS /\ add_coins(u, amt)
    \/ \E u \in Members, amt \in CoinAmounts : set_coins(u, amt)

SpecBids == Init /\ [][NextBids]_vars

(***************************************************************************)
(* SpecStore: the life of the store.  Auctions are created one by one and  *)
(* in batches and take bids; the process restarts, is killed inside        *)
(* auction_start, and admins reset everything.                             *)
(***************************************************************************)
StoreAmounts == {10}
CopyLists == {<<>>, <<Pokemon>>, <<Pokemon, Pokemon>>}
Confirmations == {"CONFIRM", "yes"}

\* room for n more tasks, and for n more auctions with ids in AuctionIds
CanCreate(n) ==
    /\ Len(timers) + n <= MaxTasks
    /\ \A k \in 0..(n - 1) : data.next_aid + k \in AuctionIds

NextStore ==
    \/ CanCreate(1) /\ \E dur \in Durations : auction_start({}, dur, 0)
    \/ \E copies \in CopyLists, dur \in Durations :
          CanCreate(Len(copies)) /\ auction_start_copies(copies, dur, 0)
    \/ CanCreate(1) /\ crash_in_start
    \/ restart
    \/ \E c \in Confirmations : auction_reset_all(c)
    \/ \E u \in Members, id \in AuctionIds, amt \in StoreAmounts : auction_bid(u, id, amt)
    \/ \E id \in AuctionIds : bid_resume(id)
    \/ \E id \in AuctionIds : bid_reply_sent(id)
    \/ \E i \in DOMAIN orphans : orphan_resume(i)
    \/ \E i \in DOMAIN orphans : orphan_reply_sent(i)

SpecStore == Init /\ [][NextStore]_vars

\* ------------------------------------------------------------------ claims
IsBid(r) == r.op \in {"bid", "bid_resumed"}

\* ceil(prior * 11 / 10) in exact integer arithmetic, min_bid when prior = 0
ExactRequired(prior, min_bid) ==
    IF prior = 0 THEN min_bid ELSE (11 * prior + 9) \div 10

\* the number of grants of auction id's copy (its unique_id) in all inventories
GrantsOfAuction(d, id) ==
    Sum([u \in DOMAIN d.inventory |->
            Cardinality({i \in DOMAIN d.inventory[u] :
                d.inventory[u][i].unique_id = d.auctions[id].unique_id})],
        DOMAIN d.inventory)

PendingTasks(id) ==
    {i \in DOMAIN timers : timers[i].aid = id /\ timers[i].state = "pending"}

\* the ledger after one bid is handled alone, with no other handler in flight
SerialBid(d, user, id, amount) ==
    IF amount <= 0 \/ user \in d.banned \/ ~HasAuction(d, id) THEN d
    ELSE
        LET auc == d.auctions[id]
            prior == auc.top_bid
            need == min_required_after(prior.amount, auc.min_bid)
            touched == {user} \cup (IF prior # NoBid THEN {prior.user_id} ELSE {})
        IN  IF auc.is_closed \/ amount < need \/ amount > get_balance(d, user)
            THEN d
            ELSE [d EXCEPT
                    !.coins = [u \in DOMAIN d.coins \cup touched |->
                        get_balance(d, u)
                        + (IF prior # NoBid /\ u = prior.user_id
                           THEN prior.amount ELSE 0)
                        - (IF u = user THEN amount ELSE 0)],
                    !.auctions[id].top_bid =
                        [user_id |-> user, amount |-> amount],
                    !.auctions[id].bids_received = @ + 1]

(***************************************************************************)
(* C1: under every interleaving of bid handlers on one auction id, each    *)
(* bid takes effect in a single step whose result is that of handling the  *)
(* bid alone on the ledger as it stands, so the outcome is that of the     *)
(* bids applied one at a time in the order of these steps; and a top bid   *)
(* is replaced only by an accepted bid that was checked against it, which  *)
(* then becomes the top bid and counts as one more bid received (no two    *)
(* bids pass the increment check against the same prior top bid).          *)
(***************************************************************************)
C1_BidsSerialize ==
    [][ /\ IsBid(response') =>
             data' = SerialBid(data, response'.user, response'.aid,
                               response'.amount)
        /\ \A id \in DOMAIN data.auctions :
             data'.auctions[id].top_bid # data.auctions[id].top_bid =>
                /\ IsBid(response')
                /\ response'.kind = "accepted"
                /\ response'.aid = id
                /\ data'.auctions[id].top_bid =
                     [user_id |-> response'.user, amount |-> response'.amount]
                /\ data'.auctions[id].bids_received =
                     data.auctions[id].bids_received + 1
                /\ response'.amount > data.auctions[id].top_bid.amount
      ]_vars

\* a bid that waited for the lock is accepted over an earlier accepted bid
C1_Witness ==
    /\ response.op = "bid_resumed"
    /\ response.kind = "accepted"
    /\ data.auctions[response.aid].bids_received >= 2

\* all coins: every user's balance plus the top bids held on open auctions
TotalMoney ==
    Sum([u \in Users |-> get_balance(data, u)], Users)
    + Sum([id \in active_auctions(data) |-> data.auctions[id].top_bid.amount],
          active_auctions(data))

(***************************************************************************)
(* C2: money conservation.  Over bids (accepted, rejected, concurrent) and *)
(* cancellations, with no admin balance edit, settlement or reset, the sum *)
(* of all balances (an unseen account counting as 1000) plus the top bid   *)
(* amounts of the open auctions stays what it was at the start.            *)
(***************************************************************************)
C2_MoneyConserved == TotalMoney = Cardinality(Users) * STARTING_COINS

\* one auction was cancelled with a standing bid while another, outbid once,
\* still holds a top bid
C2_Witness ==
    \E id1, id2 \in DOMAIN data.auctions :
        /\ data.auctions[id1].is_closed
        /\ refunded[id1] = 1
        /\ ~data.auctions[id2].is_closed
        /\ data.auctions[id2].bids_received >= 2

(***************************************************************************)
(* C3: no bid is accepted below the required amount.  Whenever an          *)
(* auction's top bid changes, the new amount is at least min_bid if there  *)
(* was no top bid and at least ceil(prior * 1.10), in exact arithmetic, if *)
(* the prior top bid amount was prior.                                     *)
(***************************************************************************)
C3_NoBidBelowRequired ==
    [][ \A id \in DOMAIN data.auctions :
          data'.auctions[id].top_bid # data.auctions[id].top_bid =>
             data'.auctions[id].top_bid.amount >=
                ExactRequired(data.auctions[id].top_bid.amount,
                              data.auctions[id].min_bid)
      ]_vars

\* a third bid, of 60, was accepted over a lower top bid
C3_Witness ==
    \E id \in DOMAIN data.auctions :
        /\ data.auctions[id].top_bid.amount = 60
        /\ data.auctions[id].bids_received = 3

(***************************************************************************)
(* C4: the amount a bid is checked against is exactly min_bid when there   *)
(* is no top bid and exactly the integer ceiling of prior * 11 / 10        *)
(* otherwise: a too-low rejection reports that amount, and a bid of at     *)
(* least that amount which the bidder can afford is accepted (after a bid  *)
(* of 50 the required amount is 55).                                       *)
(***************************************************************************)
C4_RequiredIsExactCeiling ==
    [][ (IsBid(response') /\
         response'.kind \in {"too_low", "insufficient", "accepted"}) =>
          LET auc == data.auctions[response'.aid]
              need == ExactRequired(auc.top_bid.amount, auc.min_bid)
          IN  /\ response'.kind = "too_low" =>
                    /\ response'.required = need
                    /\ response'.amount < need
              /\ (/\ response'.amount >= need
                  /\ response'.amount <= get_balance(data, response'.user)) =>
                    response'.kind = "accepted"
      ]_vars

(***************************************************************************)
(* C5: the outbid scenario.  On an open auction with min_bid 10: with no   *)
(* top bid and A at balance 1000, A bidding 50 is accepted, A's balance    *)
(* becomes 950 and the top bid {A, 50}; then B bidding 54 is rejected as   *)
(* too low, reporting 55, with no change of the ledger; and with B at      *)
(* 1000, B bidding 60 is accepted, after which A has 1000, B has 940 and   *)
(* the top bid is {B, 60}.                                                 *)
(***************************************************************************)
C5_OutbidScenario ==
    [][ \A id \in DOMAIN data.auctions :
          LET auc == data.auctions[id]
              r == response'
              A50 == [user_id |-> "A", amount |-> 50]
          IN  (/\ IsBid(r) /\ r.aid = id
               /\ ~auc.is_closed /\ auc.min_bid = 10) =>
                /\ (/\ auc.top_bid = NoBid
                    /\ get_balance(data, "A") = 1000
                    /\ r.user = "A" /\ r.amount = 50) =>
                      /\ r.kind = "accepted"
                      /\ get_balance(data', "A") = 950
                      /\ data'.auctions[id].top_bid = A50
                /\ (/\ auc.top_bid = A50
                    /\ r.user = "B" /\ r.amount = 54) =>
                      /\ r.kind = "too_low"
                      /\ r.required = 55
                      /\ data' = data
                /\ (/\ auc.top_bid = A50
                    /\ get_balance(data, "A") = 950
                    /\ get_balance(data, "B") = 1000
                    /\ r.user = "B" /\ r.amount = 60) =>
                      /\ r.kind = "accepted"
                      /\ get_balance(data', "A") = 1000
                      /\ get_balance(data', "B") = 940
                      /\ data'.auctions[id].top_bid =
                           [user_id |-> "B", amount |-> 60]
      ]_vars

(***************************************************************************)
(* C6: settle_auction is idempotent.  However many times it is called on   *)
(* the record of an auction, the auction's item is in the inventories at   *)
(* most once.                                                              *)
(***************************************************************************)
C6_SettleIdempotent ==
    \A id \in DOMAIN data.auctions : GrantsOfAuction(data, id) <= 1

(***************************************************************************)
(* C7: under every interleaving of the expiry timer, admin close and admin *)
(* cancel, an auction's item is granted at most once, its top bid is       *)
(* refunded by cancellation at most once, and never both; the grants made  *)
(* are the grants in the inventories; and an auction that was granted or   *)
(* refunded is closed.                                                     *)
(***************************************************************************)
C7_ClosedOnce ==
    \A id \in DOMAIN data.auctions :
        /\ granted[id] + refunded[id] <= 1
        /\ GrantsOfAuction(data, id) = granted[id]
        /\ granted[id] + refunded[id] = 1 => data.auctions[id].is_closed

\* the auction was settled by admin close at a time when its timer was due,
\* and a cancel came afterwards
C7_Witness ==
    \E id \in DOMAIN tasks :
        /\ granted[id] = 1
        /\ response.op = "cancel"
        /\ response.kind = "already_closed"
        /\ timers[tasks[id]].state = "cancelled"
        /\ now >= timers[tasks[id]].wake

(***************************************************************************)
(* C8: auction_cancel on an open auction with a standing top bid of X adds *)
(* exactly X to the top bidder's balance, changes no other balance and no  *)
(* inventory, and marks the auction closed; afterwards no step grants the  *)
(* auction's item, refunds it again, or changes its record, and no command *)
(* on it changes a balance.                                                *)
(***************************************************************************)
C8_CancelRefundsOnce ==
    [][ \A id \in DOMAIN data.auctions :
          LET auc == data.auctions[id]
              top == auc.top_bid
          IN  /\ (/\ response'.op = "cancel"
                  /\ response'.kind = "cancelled"
                  /\ response'.aid = id
                  /\ top # NoBid) =>
                    /\ ~auc.is_closed
                    /\ \A u \in Users :
                         get_balance(data', u) = get_balance(data, u)
                            + (IF u = top.user_id THEN top.amount ELSE 0)
                    /\ data'.inventory = data.inventory
                    /\ data'.auctions[id].is_closed
              /\ (auc.is_closed /\ refunded[id] = 1) =>
                    /\ granted'[id] = 0
                    /\ refunded'[id] = 1
                    /\ GrantsOfAuction(data', id) = 0
                    /\ data'.auctions[id] = auc
                    /\ response'.aid = id =>
                         \A u \in Users :
                            get_balance(data', u) = get_balance(data, u)
      ]_vars

\* an admin close arrives after the auction was cancelled with a standing bid
C8_Witness ==
    \E id \in DOMAIN data.auctions :
        /\ refunded[id] = 1
        /\ response.op = "close"
        /\ response.kind = "already_closed"
        /\ response.aid = id

(***************************************************************************)
(* C9: after a restart, every auction whose end_ts is already past is      *)
(* closed, and if it has a top bid its item is in the top bidder's         *)
(* inventory exactly once.                                                 *)
(***************************************************************************)
C9_RecoverySettlesExpired ==
    response.op = "restart" =>
        \A id \in DOMAIN data.auctions :
            data.auctions[id].end_ts <= now =>
                /\ data.auctions[id].is_closed
                /\ data.auctions[id].top_bid # NoBid =>
                      GrantsOfAuction(data, id) = 1

(***************************************************************************)
(* C10: after a restart, every open auction with end_ts in the future has  *)
(* exactly one pending timer task, which is the one registered under its   *)
(* id, and no closed auction has a task.                                   *)
(***************************************************************************)
C10_RecoveryArmsTimers ==
    response.op = "restart" =>
        \A id \in DOMAIN data.auctions :
            LET auc == data.auctions[id]
            IN  /\ (~auc.is_closed /\ auc.end_ts > now) =>
                      /\ Cardinality(PendingTasks(id)) = 1
                      /\ id \in DOMAIN tasks
                      /\ tasks[id] \in PendingTasks(id)
                /\ auc.is_closed =>
                      /\ PendingTasks(id) = {}
                      /\ id \notin DOMAIN tasks

\* a restart with one auction open and one closed, both ending in the future
C10_Witness ==
    /\ response.op = "restart"
    /\ \E id1, id2 \in DOMAIN data.auctions :
          /\ ~data.auctions[id1].is_closed
          /\ data.auctions[id1].end_ts > now
          /\ data.auctions[id2].is_closed
          /\ data.auctions[id2].end_ts > now
(***************************************************************************)
(* C11: a bid by a banned user is rejected as banned for every amount,     *)
(* zero and negative amounts included, and every auction id, and changes   *)
(* no state.                                                               *)
(***************************************************************************)
C11_BannedAlwaysRejected ==
    [][(response'.op = "bid" /\ response'.user \in data.banned)
        => /\ response'.kind = "banned"
           /\ UNCHANGED <<data, disk, tasks, timers, bid_locks, orphans>>]_vars

(***************************************************************************)
(* C11 as amended: a bid of a positive amount by a banned user is rejected *)
(* as banned for every auction id (open, closed or unknown) and changes no *)
(* state; a bid of zero or less is rejected as an invalid amount first,    *)
(* also without changing state.                                            *)
(***************************************************************************)
C11_BannedRejectedAfterAmount ==
    [][(response'.op = "bid" /\ response'.user \in data.banned)
        => /\ response'.kind =
                 IF response'.amount > 0 THEN "banned" ELSE "invalid_amount"
           /\ UNCHANGED <<data, disk, tasks, timers, bid_locks, orphans>>]_vars

\* a banned user has just been turned away from an id that no auction has
C11_Witness ==
    /\ response.op = "bid"
    /\ response.kind = "banned"
    /\ response.user \in data.banned
    /\ ~HasAuction(data, response.aid)
    /\ \E id \in DOMAIN data.auctions : data.auctions[id].is_closed

\* the checks of a bid that fail in ledger d, as the claim numbers them
FailingChecks(d, user, id, amount) ==
    LET open == HasAuction(d, id) /\ ~d.auctions[id].is_closed
        prior == IF open THEN d.auctions[id].top_bid.amount ELSE 0
    IN  {c \in 1..5 :
            \/ c = 1 /\ amount <= 0
            \/ c = 2 /\ user \in d.banned
            \/ c = 3 /\ ~open
            \/ c = 4 /\ open
                     /\ amount < min_required_after(prior, d.auctions[id].min_bid)
            \/ c = 5 /\ amount > get_balance(d, user)}

OutcomeOfCheck(c) ==
    CASE c = 1 -> "invalid_amount"
      [] c = 2 -> "banned"
      [] c = 3 -> "invalid_or_closed"
      [] c = 4 -> "too_low"
      [] c = 5 -> "insufficient"

(***************************************************************************)
(* C12: auction_bid reports the outcome of the first failing check in the  *)
(* order amount > 0, not banned, auction exists and is open, amount >=     *)
(* required, amount <= balance, whatever other checks fail with it; it     *)
(* accepts the bid when none fails.  A handler that waited for the lock    *)
(* passed the first two checks when it was called and goes on with the     *)
(* third.                                                                  *)
(***************************************************************************)
C12_FirstFailingCheckWins ==
    [][IsBid(response') =>
        LET r == response'
            from == IF r.op = "bid" THEN 1 ELSE 3
            failing == {c \in FailingChecks(data, r.user, r.aid, r.amount) :
                            c >= from}
        IN  r.kind = IF failing = {} THEN "accepted"
                     ELSE OutcomeOfCheck(Min(failing))]_vars

\* a bid was refused as too low that its bidder could not have paid either
C12_Witness ==
    /\ IsBid(response)
    /\ response.kind = "too_low"
    /\ {4, 5} \subseteq
          FailingChecks(data, response.user, response.aid, response.amount)

(***************************************************************************)
(* C13: a rejected bid, whatever the reason, leaves the document (coins,   *)
(* inventory, auctions with their top_bid and bids_received, next_aid,     *)
(* ban list) unchanged, in memory and as persisted.                        *)
(***************************************************************************)
C13_RejectedBidChangesNothing ==
    [][(IsBid(response') /\ response'.kind # "accepted")
        => data' = data /\ disk' = disk]_vars

\* a raise over a standing bid was refused for lack of coins
C13_Witness ==
    /\ IsBid(response)
    /\ response.kind = "insufficient"
    /\ HasAuction(data, response.aid)
    /\ data.auctions[response.aid].top_bid # NoBid
    /\ data.auctions[response.aid].bids_received = 1

(***************************************************************************)
(* C14: every account balance is >= 0 in every reachable state, under bids,*)
(* cancellations and the admin commands add_coins (any non-zero delta) and *)
(* set_coins (any amount): a change that would make a balance negative is  *)
(* refused and leaves the balance as it was.                               *)
(***************************************************************************)
C14_BalancesNonNegative ==
    \A u \in Users : get_balance(data, u) >= 0 /\ get_balance(disk, u) >= 0

(***************************************************************************)
(* C15: in every reachable state, also after a restart, every auction that *)
(* is not closed has its end_ts in the future or exactly one pending timer *)
(* task, the one registered under its id in self.tasks.                    *)
(***************************************************************************)
C15_OpenAuctionHasTimer ==
    \A id \in active_auctions(data) :
        \/ data.auctions[id].end_ts > now
        \/ /\ id \in DOMAIN tasks
           /\ PendingTasks(id) = {tasks[id]}

(***************************************************************************)
(* C16: the ids next_aid returns are strictly increasing over the whole    *)
(* life of the store, and none is given to two auctions: whenever a step   *)
(* hands out ids, the first of them is greater than every id handed out    *)
(* before, whatever creations, restarts, crashes, bids and resets came     *)
(* before.                                                                 *)
(***************************************************************************)
C16_IdsNeverReused ==
    [][data'.next_aid > data.next_aid => data.next_aid > last_aid]_vars

(***************************************************************************)
(* C16 as amended: as long as auction_reset_all is not confirmed, the ids  *)
(* next_aid returns are strictly increasing and none is given to two       *)
(* auctions, across single and batch creations, bids, restarts and a crash *)
(* between the saves of a creation: the counter, in memory and persisted,  *)
(* never decreases, the ids a step hands out are the counter values it     *)
(* passes, and each new auction gets one of them.  A confirmed reset puts  *)
(* the counter back to its default, and ids are handed out again.          *)
(***************************************************************************)
C16_IdsIncreaseUntilReset ==
    [][response'.kind # "reset" =>
        /\ data'.next_aid >= data.next_aid
        /\ disk'.next_aid >= disk.next_aid
        /\ data'.next_aid > data.next_aid => last_aid' = data'.next_aid - 1
        /\ \A id \in DOMAIN data'.auctions :
              /\ id < data'.next_aid
              /\ id \notin DOMAIN data.auctions => id >= data.next_aid]_vars

\* a crash used up the first id, and the next auction got the second
C16_Witness ==
    /\ response.kind = "started"
    /\ last_aid = DEFAULT_NEXT_AID + 1
    /\ DOMAIN data.auctions = {DEFAULT_NEXT_AID + 1}
    /\ disk.next_aid = DEFAULT_NEXT_AID + 2

(***************************************************************************)
(* C17: closed is terminal.  Once an auction's is_closed is true, no step  *)
(* (bid, waiting bid resumed, admin close, admin cancel, timer) sets it    *)
(* back to false, changes its top_bid or its bids_received, or accepts a   *)
(* bid on it.                                                              *)
(***************************************************************************)
C17_ClosedIsTerminal ==
    [][\A id \in DOMAIN data.auctions :
        data.auctions[id].is_closed =>
            /\ HasAuction(data', id)
            /\ data'.auctions[id].is_closed
            /\ data'.auctions[id].top_bid = data.auctions[id].top_bid
            /\ data'.auctions[id].bids_received = data.auctions[id].bids_received
            /\ ~(/\ IsBid(response')
                 /\ response'.aid = id
                 /\ response'.kind = "accepted")]_vars

\* a raise the bidder could pay was turned away from a closed auction
C17_Witness ==
    /\ IsBid(response)
    /\ response.kind = "invalid_or_closed"
    /\ HasAuction(data, response.aid)
    /\ data.auctions[response.aid].is_closed
    /\ data.auctions[response.aid].top_bid # NoBid
    /\ response.amount >=
          min_required_after(data.auctions[response.aid].top_bid.amount,
                             data.auctions[response.aid].min_bid)
    /\ response.amount <= get_balance(data, response.user)

(***************************************************************************)
(* C18: every auction's min_bid is a positive integer; its top_bid.amount, *)
(* once set, is at least min_bid and never decreases (nor is the top bid   *)
(* unset) in any step.                                                     *)
(***************************************************************************)
C18_TopBidMonotone ==
    [][\A id \in DOMAIN data'.auctions :
        LET new == data'.auctions[id]
        IN  /\ new.min_bid \in Nat \ {0}
            /\ new.top_bid # NoBid => new.top_bid.amount >= new.min_bid
            /\ (HasAuction(data, id) /\ data.auctions[id].top_bid # NoBid)
                  => /\ new.top_bid # NoBid
                     /\ new.top_bid.amount >= data.auctions[id].top_bid.amount
                     /\ new.min_bid = data.auctions[id].min_bid]_vars

\* an auction with a floor of its own has had its first bid raised
C18_Witness ==
    \E id \in DOMAIN data.auctions :
        /\ data.auctions[id].min_bid = 50
        /\ data.auctions[id].bids_received = 2
        /\ data.auctions[id].top_bid.amount = 60

(***************************************************************************)
(* C19: no bid is accepted on an auction once its settlement or its        *)
(* cancellation has begun.  A step that accepts a bid finds the auction    *)
(* open, with nothing granted or refunded for it, and leaves it open with  *)
(* that bid as top_bid; top_bid changes in no other step.  So the item     *)
(* goes to the holder of the last accepted bid, and a cancellation refunds *)
(* the last accepted bidder that bid's amount.                             *)
(***************************************************************************)
C19_NoBidAfterClosing ==
    [][/\ (IsBid(response') /\ response'.kind = "accepted") =>
            LET id == response'.aid
            IN  /\ ~data.auctions[id].is_closed
                /\ ~data'.auctions[id].is_closed
                /\ granted[id] = 0 /\ refunded[id] = 0
                /\ data'.auctions[id].top_bid =
                      [user_id |-> response'.user, amount |-> response'.amount]
       /\ \A id \in DOMAIN data.auctions :
            LET top == data.auctions[id].top_bid
            IN  /\ data'.auctions[id].top_bid # top =>
                      /\ IsBid(response')
                      /\ response'.aid = id
                      /\ response'.kind = "accepted"
                /\ granted'[id] > granted[id] =>
                      /\ top # NoBid
                      /\ data'.auctions[id].is_closed
                      /\ get_inventory(data', top.user_id) =
                            Append(get_inventory(data, top.user_id),
                                   [pokemon |-> data.auctions[id].pokemon,
                                    unique_id |-> data.auctions[id].unique_id])
                /\ refunded'[id] > refunded[id] =>
                      /\ top # NoBid
                      /\ data'.auctions[id].is_closed
                      /\ get_balance(data', top.user_id) =
                            get_balance(data, top.user_id) + top.amount]_vars

\* a bid that waited for the lock while the auction was settled is refused
C19_Witness ==
    /\ response.op = "bid_resumed"
    /\ response.kind = "invalid_or_closed"
    /\ HasAuction(data, response.aid)
    /\ granted[response.aid] = 1
    /\ data.auctions[response.aid].top_bid.user_id # response.user
    /\ response.amount > data.auctions[response.aid].top_bid.amount

(***************************************************************************)
(* C20: settlement and cancellation run in the same per-auction exclusive  *)
(* section as bids: no step of settle_auction or auction_cancel closes an  *)
(* auction while a bid handler holds the bid lock of that auction id.      *)
(***************************************************************************)
C20_ClosingExcludesBids ==
    [][\A id \in DOMAIN data.auctions :
        (~data.auctions[id].is_closed /\ data'.auctions[id].is_closed)
            => ~(id \in DOMAIN bid_locks /\ bid_locks[id].locked)]_vars

\* the lock of auction id in the map `locks`, a fresh one if it has none
LockIn(locks, id) ==
    IF id \in DOMAIN locks THEN locks[id]
    ELSE [locked |-> FALSE, waiters |-> <<>>]

(***************************************************************************)
(* C21: bids on different auction ids never block each other.  A bid       *)
(* handler is made to wait only by the lock of its own auction id: when    *)
(* the queue of an id grows, that id's lock was held or had waiters; and a *)
(* bid that meets a free lock of its own id runs to its outcome in that    *)
(* step, whatever locks of other ids are held.                             *)
(***************************************************************************)
C21_OtherAuctionsDoNotBlock ==
    [][\A id \in AuctionIds :
        LET before == LockIn(bid_locks, id)
            after == LockIn(bid_locks', id)
        IN  /\ Len(after.waiters) > Len(before.waiters)
                  => before.locked \/ before.waiters # <<>>
            /\ (~before.locked /\ before.waiters = <<>> /\ after # before)
                  => /\ response'.op = "bid"
                     /\ response'.aid = id
                     /\ after.waiters = <<>>]_vars

\* a bid on one auction was accepted while the lock of the other was held
C21_Witness ==
    /\ response.op = "bid"
    /\ response.kind = "accepted"
    /\ \E other \in DOMAIN bid_locks :
          /\ other # response.aid
          /\ bid_locks[other].locked

(***************************************************************************)
(* C26: settle_auction on an open auction marks it closed and changes no   *)
(* balance; with a top bid it appends exactly one item grant, the          *)
(* auction's pokemon and unique_id, to the top bidder's inventory, and     *)
(* with no top bid it changes no inventory.  Nothing else in the document  *)
(* changes.                                                                *)
(***************************************************************************)
C26_SettleGrantsOnce ==
    [][(response'.op = "settle" /\ ~data.auctions[response'.aid].is_closed) =>
        LET id == response'.aid
            auc == data.auctions[id]
            top == auc.top_bid
            closed == [data EXCEPT !.auctions[id].is_closed = TRUE]
        IN  /\ data'.coins = data.coins
            /\ data'.auctions[id].is_closed
            /\ data' =
                 IF top # NoBid
                 THEN [closed EXCEPT !.inventory =
                        (top.user_id :>
                            Append(get_inventory(data, top.user_id),
                                   [pokemon |-> auc.pokemon,
                                    unique_id |-> auc.unique_id]))
                        @@ data.inventory]
                 ELSE closed
            /\ disk' = data']_vars

\* an open auction with a standing bid has just been settled
C26_Witness ==
    /\ response.op = "settle"
    /\ granted[response.aid] = 1
    /\ data.auctions[response.aid].is_closed
    /\ LET top == data.auctions[response.aid].top_bid
       IN  /\ top # NoBid
           /\ Len(get_inventory(data, top.user_id)) = 1
           /\ get_balance(data, top.user_id) = STARTING_COINS - top.amount

(***************************************************************************)
(* C27: on every auction the top_bid is the last accepted bid, and its     *)
(* amount is the greatest amount among the accepted bids.  Step by step:   *)
(* a step that accepts a bid on the auction makes that bid the top_bid,    *)
(* with an amount above the top bid it replaces, and no other step changes *)
(* the top_bid.                                                            *)
(***************************************************************************)
C27_TopBidIsLastAndGreatest ==
    [][\A id \in DOMAIN data'.auctions :
        LET accepted == /\ IsBid(response')
                        /\ response'.aid = id
                        /\ response'.kind = "accepted"
            old == IF HasAuction(data, id) THEN data.auctions[id].top_bid
                   ELSE NoBid
            new == data'.auctions[id].top_bid
        IN  IF accepted
            THEN /\ new = [user_id |-> response'.user,
                           amount |-> response'.amount]
                 /\ new.amount > old.amount
                 /\ data'.auctions[id].bids_received =
                       data.auctions[id].bids_received + 1
            ELSE new = old]_vars

\* three bids were accepted in turn, the last after waiting for the lock
C27_Witness ==
    /\ response.op = "bid_resumed"
    /\ response.kind = "accepted"
    /\ data.auctions[response.aid].bids_received = 3
    /\ data.auctions[response.aid].top_bid.amount = 60

(***************************************************************************)
(* C28: auction_close and auction_cancel on an auction that is already     *)
(* closed, settled or cancelled, report that it is already closed, and on  *)
(* an id no auction has they report not found; in both cases nothing       *)
(* changes: no grant, no refund, no balance, no task.                      *)
(***************************************************************************)
C28_ClosedOrMissingIsNoOp ==
    [][response'.op \in {"close", "cancel"} =>
        LET id == response'.aid
        IN  /\ ~HasAuction(data, id) =>
                  /\ response'.kind = "not_found"
                  /\ UNCHANGED <<data, disk, tasks, timers, granted, refunded>>
            /\ (HasAuction(data, id) /\ data.auctions[id].is_closed) =>
                  /\ response'.kind = "already_closed"
                  /\ UNCHANGED <<data, disk, tasks, timers, granted, refunded>>
            /\ (HasAuction(data, id) /\ ~data.auctions[id].is_closed) =>
                  response'.kind \in {"settled", "cancelled"}]_vars

\* an admin tried to settle an auction that had been cancelled with a refund
C28_Witness ==
    /\ response.op = "close"
    /\ response.kind = "already_closed"
    /\ refunded[response.aid] = 1
    /\ granted[response.aid] = 0

\* ------------------------------------------------------ crashes in a save
(***************************************************************************)
(* _save(data) runs in four steps: open DATA_FILE + ".tmp" for writing,    *)
(* which empties it; json.dump writes the text of the document to it;      *)
(* leaving the `with` block closes it, complete; os.replace renames it     *)
(* over DATA_FILE.  A file holds a document, or Prefix(d, part): a proper  *)
(* prefix of the text of document d, which json.load cannot read.          *)
(***************************************************************************)
SaveSteps == 4

Prefix(d, part) == [prefix_of |-> d, part |-> part]

\* json.load reads the file: it holds one whole document
IsDocument(file) == DOMAIN file = DOMAIN DEFAULT_STATE

\* the file opened for writing after k steps of writing document d to it
Written(d, k) ==
    IF k = 1 THEN Prefix(d, "empty")
    ELSE IF k = 2 THEN Prefix(d, "some")
    ELSE d

\* a faulty variant of SaveCrashed: the document is written to DATA_FILE
SaveCrashed_InPlace(live, d, k) ==
    IF k = 0 THEN live ELSE Written(d, k)

\* DATA_FILE when the process dies after k steps of _save(d)
SaveCrashed(live, d, k) ==
    IF k < SaveSteps THEN live ELSE Written(d, SaveSteps - 1)

\* the documents an accepted bid saves, in order (auction_bid, 578-592)
BidSaves(d, user, id, amount) ==
    LET auc == d.auctions[id]
        top == auc.top_bid
        d1 == IF top # NoBid
              THEN add_balance(d, top.user_id, top.amount)
              ELSE d
        d2 == add_balance(d1, user, -amount)
        d3 == save_auction(d2,
                [auc EXCEPT !.top_bid = [user_id |-> user, amount |-> amount],
                            !.bids_received = @ + 1])
    IN  (IF top # NoBid THEN <<d1>> ELSE <<>>) \o <<d2, d3>>

\* the documents auction_cancel saves, in order (945-950)
CancelSaves(d, id) ==
    LET auc == d.auctions[id]
        top == auc.top_bid
        d1 == IF top # NoBid
              THEN add_balance(d, top.user_id, top.amount)
              ELSE d
        d2 == save_auction(d1, [auc EXCEPT !.is_closed = TRUE])
    IN  (IF top # NoBid THEN <<d1>> ELSE <<>>) \o <<d2>>

\* the documents settle_auction saves, in order (380-390)
SettleSaves(d, id) ==
    LET auc == [d.auctions[id] EXCEPT !.is_closed = TRUE]
        d1 == save_auction(d, auc)
        winner == auc.top_bid
    IN  <<d1>> \o (IF winner # NoBid
                   THEN <<add_inventory(d1, winner.user_id, auc.pokemon,
                                        auc.unique_id)>>
                   ELSE <<>>)

(***************************************************************************)
(* The process dies in the j-th save of an operation that saves the        *)
(* documents `saves`, after k steps of that _save.  Only the file          *)
(* survives; `data` keeps the document the operation started from until    *)
(* the restart replaces it.                                                *)
(***************************************************************************)
crash_in_save(kind, user, id, amount, saves, j, k) ==
    /\ j \in 1..Len(saves)
    /\ disk' = SaveCrashed(IF j = 1 THEN disk ELSE saves[j - 1], saves[j], k)
    /\ response' = Resp("crash", kind, user, id, amount, 0)
    /\ UNCHANGED <<data, tasks, timers, bid_locks, now, granted, refunded,
                   last_aid, orphans>>

\* the process dies in a save of a bid that auction_bid accepts
crash_in_bid(user, id, amount, j, k) ==
    /\ amount > 0
    /\ ~IsBanned(data, user)
    /\ ~LockOf(id).locked
    /\ LockOf(id).waiters = <<>>
    /\ BidCritical(data, user, id, amount).kind = "accepted"
    /\ crash_in_save("bid", user, id, amount,
                     BidSaves(data, user, id, amount), j, k)

\* the process dies in a save of auction_cancel
crash_in_cancel(id, j, k) ==
    /\ HasAuction(data, id)
    /\ ~data.auctions[id].is_closed
    /\ crash_in_save("cancel", "", id, 0, CancelSaves(data, id), j, k)

\* the process dies in a save of settle_auction, called by auction_close
crash_in_settle(id, j, k) ==
    /\ HasAuction(data, id)
    /\ ~data.auctions[id].is_closed
    /\ crash_in_save("settle", "", id, 0, SettleSaves(data, id), j, k)

(***************************************************************************)
(* SpecCrash: one auction, bids, cancellation and settlement, and crashes  *)
(* of the process in the saves of these operations.  After a crash nothing *)
(* runs until the process has restarted, which needs a readable file.      *)
(***************************************************************************)
CrashAmounts == {10, 50}

Up == response.op # "crash"

\* crashes are explored while every balance is within MinCoins..MaxCoins
MinCoins == 990
MaxCoins == 1000

CanCrash == Up /\ \A u \in Users : get_balance(data, u) \in MinCoins..MaxCoins

NextCrash ==
    \/ Up /\ data.next_aid \in FirstId /\
          \E dur \in Durations : auction_start({}, dur, 0)
    \/ Up /\ \E u \in Users, id \in FirstId, amt \in CrashAmounts :
                auction_bid(u, id, amt)
    \/ Up /\ \E id \in FirstId : bid_resume(id)
    \/ Up /\ \E id \in FirstId : bid_reply_sent(id)
    \/ Up /\ \E id \in FirstId : auction_close(id)
    \/ Up /\ \E id \in FirstId : auction_cancel(id)
    \/ CanCrash /\ \E u \in Users, id \in FirstId, amt \in CrashAmounts,
                 j \in 1..3, k \in 0..SaveSteps : crash_in_bid(u, id, amt, j, k)
    \/ CanCrash /\ \E id \in FirstId, j \in 1..2, k \in 0..SaveSteps :
                crash_in_cancel(id, j, k)
    \/ CanCrash /\ \E id \in FirstId, j \in 1..2, k \in 0..SaveSteps :
                crash_in_settle(id, j, k)
    \/ IsDocument(disk) /\ restart

SpecCrash == Init /\ [][NextCrash]_vars

\* ------------------------------------------------------- failing saves
(***************************************************************************)
(* save_data raises (open, json.dump or os.replace fails) in the j-th save *)
(* of an operation that saves the documents `saves`.  DATA_FILE keeps the  *)
(* document of the save before; self.data has been changed already, for    *)
(* add_balance, add_inventory, ban and the callers of save_auction assign  *)
(* to self.data first and call save_data after.  No handler catches the    *)
(* exception: it leaves the handler, and `async with` releases the lock.   *)
(***************************************************************************)
store_error(kind, user, id, amount, saves, j) ==
    /\ j \in 1..Len(saves)
    /\ data' = saves[j]
    /\ disk' = IF j = 1 THEN disk ELSE saves[j - 1]
    /\ response' = Resp("store_error", kind, user, id, amount, 0)

\* a save of a bid that auction_bid accepts fails
bid_store_error(user, id, amount, j) ==
    /\ amount > 0
    /\ ~IsBanned(data, user)
    /\ ~LockOf(id).locked
    /\ LockOf(id).waiters = <<>>
    /\ BidCritical(data, user, id, amount).kind = "accepted"
    /\ store_error("bid", user, id, amount, BidSaves(data, user, id, amount), j)
    /\ bid_locks' = (id :> NewLock) @@ bid_locks
    /\ UNCHANGED <<tasks, timers, now, granted, refunded, last_aid, orphans>>

\* a save of auction_cancel fails: the lines after it, the cancellation of
\* the timer task among them, are not reached
cancel_store_error(id, j) ==
    /\ HasAuction(data, id)
    /\ ~data.auctions[id].is_closed
    /\ store_error("cancel", "", id, 0, CancelSaves(data, id), j)
    /\ refunded' = [refunded EXCEPT ![id] = @ + Awarded(data, id)]
    /\ UNCHANGED <<tasks, timers, bid_locks, now, granted, last_aid, orphans>>

\* a save of settle_auction fails, called by auction_close after t.cancel()
settle_store_error(id, j) ==
    /\ HasAuction(data, id)
    /\ ~data.auctions[id].is_closed
    /\ store_error("settle", "", id, 0, SettleSaves(data, id), j)
    /\ timers' = CancelTaskOf(tasks, timers, id)
    /\ granted' = [granted EXCEPT ![id] = @ + (IF j = 2 THEN 1 ELSE 0)]
    /\ UNCHANGED <<tasks, bid_locks, now, refunded, last_aid, orphans>>

\* the save of add_balance fails in add_coins
add_coins_store_error(member, amount) ==
    /\ amount # 0
    /\ store_error("add_coins", member, 0, amount,
                   <<add_balance(data, member, amount)>>, 1)
    /\ UNCHANGED <<tasks, timers, bid_locks, now, granted, refunded, last_aid,
                   orphans>>

\* the save of ban fails
ban_store_error(member) ==
    /\ ~IsBanned(data, member)
    /\ store_error("ban", member, 0, 0,
                   <<save_data([data EXCEPT !.banned = @ \cup {member}])>>, 1)
    /\ UNCHANGED <<tasks, timers, bid_locks, now, granted, refunded, last_aid,
                   orphans>>

(***************************************************************************)
(* SpecFault: one auction, bids and cancellation, and saves that fail in   *)
(* bids, cancellation, settlement, add_coins and ban.                      *)
(***************************************************************************)
FaultAmounts == {10, 50}
FaultCoins == {5}
FaultMembers == {"B"}

\* failing saves are explored while every balance is within MinCoins..MaxCoins
CanFail == \A u \in Users : get_balance(data, u) \in MinCoins..MaxCoins

NextFault ==
    \/ data.next_aid \in FirstId /\ \E dur \in Durations : auction_start({}, dur, 0)
    \/ \E u \in Users, id \in FirstId, amt \in FaultAmounts : auction_bid(u, id, amt)
    \/ \E id \in FirstId : bid_resume(id)
    \/ \E id \in FirstId : bid_reply_sent(id)
    \/ \E id \in FirstId : auction_cancel(id)
    \/ CanFail /\ \E u \in Users, id \in FirstId, amt \in FaultAmounts, j \in 1..3 :
                     bid_store_error(u, id, amt, j)
    \/ CanFail /\ \E id \in FirstId, j \in 1..2 : cancel_store_error(id, j)
    \/ CanFail /\ \E id \in FirstId, j \in 1..2 : settle_store_error(id, j)
    \/ CanFail /\ \E u \in FaultMembers, amt \in FaultCoins : add_coins_store_error(u, amt)
    \/ \E u \in FaultMembers : ban_store_error(u)

SpecFault == Init /\ [][NextFault]_vars

\* ------------------------------------------------------------ notifications
\* a faulty variant of NoticeOutcome: the exception leaves the handler
NoticeOutcome_Raises(ok) == IF ok THEN "sent" ELSE "raised"

\* `try: await x.send(...)` with `except Exception as e: pretty_log("warn", ...)`
NoticeOutcome(ok) == IF ok THEN "sent" ELSE "logged"

(***************************************************************************)
(* What follows the first segment of a handler.  The handler is the one    *)
(* whose response is the latest; `ok` tells whether the send succeeds.     *)
(* None of these segments assigns to self.data or saves.                   *)
(***************************************************************************)
\* `await interaction.response.send_message(...)` of an accepted bid, which
\* is in no try block
bid_response(ok) ==
    /\ response.kind = "accepted"
    /\ response' = [response EXCEPT !.op = "bid_response",
                                    !.kind = IF ok THEN "sent" ELSE "raised"]
    /\ UNCHANGED <<data, disk, tasks, timers, bid_locks, now, granted, refunded,
                   last_aid, orphans>>

\* the outbid notice to the previous bidder
outbid_notice(ok) ==
    /\ response.op = "bid_response"
    /\ response.kind = "sent"
    /\ response.prev # ""
    /\ response.prev # response.user
    /\ response' = [response EXCEPT !.op = "outbid_notice",
                                    !.kind = NoticeOutcome(ok)]
    /\ UNCHANGED <<data, disk, tasks, timers, bid_locks, now, granted, refunded,
                   last_aid, orphans>>

\* settle_auction, called by auction_close: the DM to the winner
settle_dm(ok) ==
    /\ response.op = "close"
    /\ response.kind = "settled"
    /\ data.auctions[response.aid].top_bid # NoBid
    /\ response' = Resp("winner_dm", NoticeOutcome(ok),
                        data.auctions[response.aid].top_bid.user_id,
                        response.aid, 0, 0)
    /\ UNCHANGED <<data, disk, tasks, timers, bid_locks, now, granted, refunded,
                   last_aid, orphans>>

\* settle_auction: the closure embed, after the DM or when nobody has bid
settle_announce(ok) ==
    /\ \/ response.op = "winner_dm" /\ response.kind \in {"sent", "logged"}
       \/ /\ response.op = "close"
          /\ response.kind = "settled"
          /\ data.auctions[response.aid].top_bid = NoBid
    /\ response' = Resp("announce", NoticeOutcome(ok), "", response.aid, 0, 0)
    /\ UNCHANGED <<data, disk, tasks, timers, bid_locks, now, granted, refunded,
                   last_aid, orphans>>

\* settle_auction has returned to auction_close, which replies
close_reply ==
    /\ response.op = "announce"
    /\ response.kind \in {"sent", "logged"}
    /\ response' = Resp("close", "replied", "", response.aid, 0, 0)
    /\ UNCHANGED <<data, disk, tasks, timers, bid_locks, now, granted, refunded,
                   last_aid, orphans>>

(***************************************************************************)
(* SpecNotify: one auction, bids and auction_close, and the messages that  *)
(* follow an accepted bid and a settlement, each of which may fail.        *)
(***************************************************************************)
NotifyAmounts == {10, 50}

NextNotify ==
    \/ data.next_aid \in FirstId /\ \E dur \in Durations : auction_start({}, dur, 0)
    \/ \E u \in Users, id \in FirstId, amt \in NotifyAmounts : auction_bid(u, id, amt)
    \/ \E id \in FirstId : bid_resume(id)
    \/ \E id \in FirstId : bid_reply_sent(id)
    \/ \E id \in FirstId : auction_close(id)
    \/ \E ok \in BOOLEAN : bid_response(ok)
    \/ \E ok \in BOOLEAN : outbid_notice(ok)
    \/ \E ok \in BOOLEAN : settle_dm(ok)
    \/ \E ok \in BOOLEAN : settle_announce(ok)
    \/ close_reply

SpecNotify == Init /\ [][NextNotify]_vars

(***************************************************************************)
(* SpecFunds: two auctions and bidders whose balance an admin has set low, *)
(* with bids, cancellation and settlement.                                 *)
(***************************************************************************)
FundsAmounts == {10, 11}
FundsCoins == {15}
FundsBidders == {"A"}

NextFunds ==
    \/ data.next_aid \in AuctionIds /\ \E dur \in Durations : auction_start({}, dur, 0)
    \/ \E u \in FundsBidders, amt \in FundsCoins :
          u \notin DOMAIN data.coins /\ set_coins(u, amt)
    \/ \E u \in FundsBidders, id \in AuctionIds, amt \in FundsAmounts : auction_bid(u, id, amt)
    \/ \E id \in AuctionIds : bid_resume(id)
    \/ \E id \in AuctionIds : bid_reply_sent(id)
    \/ \E id \in AuctionIds : auction_cancel(id)
    \/ \E id \in AuctionIds : auction_close(id)

SpecFunds == Init /\ [][NextFunds]_vars

(***************************************************************************)
(* SpecRestartFair: SpecRestart with the scheduling the event loop gives:  *)
(* the clock advances, and a timer task whose sleep is over is run.        *)
(***************************************************************************)
SpecRestartFair ==
    /\ SpecRestart
    /\ WF_vars(Tick)
    /\ WF_vars(\E i \in DOMAIN timers : wait_and_close(i))

(***************************************************************************)
(* SpecLocks: bids on two auctions, with rejections whose reply is sent or *)
(* fails.  Every send terminates, and the event loop runs a handler that   *)
(* the released lock has woken.                                            *)
(***************************************************************************)
LockAmounts == {9, 10}
LockBidders == {"A"}

NextLocks ==
    \/ data.next_aid \in AuctionIds /\ \E dur \in Durations : auction_start({}, dur, 0)
    \/ \E u \in LockBidders, id \in AuctionIds, amt \in LockAmounts : auction_bid(u, id, amt)
    \/ \E id \in AuctionIds : bid_resume(id)
    \/ \E id \in AuctionIds : bid_reply_sent(id)
    \/ \E id \in AuctionIds : bid_reply_failed(id)

SpecLocks ==
    /\ Init /\ [][NextLocks]_vars
    /\ \A id \in AuctionIds : WF_vars(bid_resume(id))
    /\ \A id \in AuctionIds : WF_vars(bid_reply_sent(id) \/ bid_reply_failed(id))

(***************************************************************************)
(* SpecReset: auctions, their timer tasks, the clock, and full resets,     *)
(* after which the auction ids start again from the default counter.       *)
(***************************************************************************)
NextReset ==
    \/ (CanCreate(1) /\ data.next_aid \in AuctionIds) /\
          \E dur \in Durations : auction_start({}, dur, 0)
    \/ \E c \in Confirmations : auction_reset_all(c)
    \/ \E i \in DOMAIN timers : wait_and_close(i)
    \/ Tick

SpecReset == Init /\ [][NextReset]_vars

\* ------------------------------------- the single-auction cog (auction_system)
(***************************************************************************)
(* cogs/auction_system.py keeps one auction in data["auction"].  Under     *)
(* SpecSingle the variables hold the state of that cog: `data` and `disk`  *)
(* its document, `tasks` the state of self.auction_update_task, `last_aid` *)
(* the number of auctions started; the clock counts periods of 60 s, the   *)
(* length of an auction.  The variables of the other cog stay as they are. *)
(***************************************************************************)
MaxAuctions == 2

\* data["auction"] = None
NoAuction ==
    [pokemon |-> "", highest_bid |-> 0, highest_bidder |-> "", end_time |-> 0]

\* the document load_data returns when there is no file
SingleDefault ==
    [coins |-> EmptyMap, inventory |-> EmptyMap, auction |-> NoAuction,
     banned |-> {}]

single_get_balance(d, user_id) ==
    IF user_id \in DOMAIN d.coins THEN d.coins[user_id] ELSE STARTING_COINS

single_add_balance(d, user_id, amount) ==
    [d EXCEPT !.coins =
        (user_id :> (single_get_balance(d, user_id) + amount)) @@ d.coins]

single_add_inventory(d, user_id, pokemon) ==
    [d EXCEPT !.inventory =
        (user_id :> Append(IF user_id \in DOMAIN d.inventory
                           THEN d.inventory[user_id] ELSE <<>>, pokemon))
        @@ d.inventory]

InitSingle ==
    /\ data = SingleDefault
    /\ disk = SingleDefault
    /\ tasks = [loop |-> "none"]
    /\ timers = <<>>
    /\ bid_locks = EmptyMap
    /\ now = 0
    /\ response = NoResponse
    /\ granted = [a \in AuctionIds |-> 0]
    /\ refunded = [a \in AuctionIds |-> 0]
    /\ last_aid = 0
    /\ orphans = <<>>

\* auction_start of the single-auction cog, by a whitelisted member in a
\* text channel
single_auction_start ==
    /\ last_aid < MaxAuctions
    /\ IF data.auction # NoAuction
       THEN /\ response' = Resp("single_start", "already_running", "", 0, 0, 0)
            /\ UNCHANGED <<data, disk, tasks, last_aid>>
       ELSE /\ data' = [data EXCEPT !.auction =
                          [pokemon |-> Pokemon, highest_bid |-> 0,
                           highest_bidder |-> "", end_time |-> now + 1]]
            /\ disk' = data'
            /\ tasks' = IF tasks.loop = "none" THEN [loop |-> "sleeping"]
                        ELSE tasks
            /\ last_aid' = last_aid + 1
            /\ response' = Resp("single_start", "started", "", 0, 0, 0)
    /\ UNCHANGED <<timers, bid_locks, now, granted, refunded, orphans>>

\* bid of the single-auction cog, up to its first await
single_bid(user, amount) ==
    /\ IF user \in data.banned
       THEN /\ response' = Resp("single_bid", "banned", user, 0, amount, 0)
            /\ UNCHANGED <<data, disk>>
       ELSE IF data.auction = NoAuction
       THEN /\ response' = Resp("single_bid", "no_auction", user, 0, amount, 0)
            /\ UNCHANGED <<data, disk>>
       ELSE IF amount <= data.auction.highest_bid
       THEN /\ response' = Resp("single_bid", "too_low", user, 0, amount, 0)
            /\ UNCHANGED <<data, disk>>
       ELSE IF amount > single_get_balance(data, user)
       THEN /\ response' = Resp("single_bid", "insufficient", user, 0, amount, 0)
            /\ UNCHANGED <<data, disk>>
       ELSE LET auction == data.auction
                d1 == IF auction.highest_bidder # ""
                      THEN single_add_balance(data, auction.highest_bidder,
                                              auction.highest_bid)
                      ELSE data
                d2 == single_add_balance(d1, user, -amount)
            IN  /\ data' = [d2 EXCEPT !.auction.highest_bid = amount,
                                      !.auction.highest_bidder = user]
                /\ disk' = data'
                /\ response' = Resp("single_bid", "accepted", user, 0, amount, 0)
    /\ UNCHANGED <<tasks, timers, bid_locks, now, granted, refunded, last_aid,
                   orphans>>

(***************************************************************************)
(* One round of auction_loop, and end_auction up to its first await.       *)
(* `is_text_channel` tells whether bot.get_channel returns a TextChannel.  *)
(* With one, the winner is given the pokemon and end_auction awaits        *)
(* channel.send; without one, nothing is given and the record is cleared.  *)
(***************************************************************************)
auction_loop(is_text_channel) ==
    /\ tasks.loop = "sleeping"
    /\ LET auction == data.auction
       IN  IF auction = NoAuction \/ now < auction.end_time
           THEN /\ response' = Resp("loop", "idle", "", 0, 0, 0)
                /\ UNCHANGED <<data, disk, tasks>>
           ELSE IF is_text_channel
           THEN /\ data' = IF auction.highest_bidder # ""
                           THEN single_add_inventory(data, auction.highest_bidder,
                                                     auction.pokemon)
                           ELSE data
                /\ disk' = data'
                /\ tasks' = [loop |-> "sending"]
                /\ response' = Resp("end_auction", "sending",
                                    auction.highest_bidder, 0,
                                    auction.highest_bid, 0)
           ELSE /\ data' = [data EXCEPT !.auction = NoAuction]
                /\ disk' = data'
                /\ response' = Resp("end_auction", "cleared",
                                    auction.highest_bidder, 0,
                                    auction.highest_bid, 0)
                /\ UNCHANGED tasks
    /\ UNCHANGED <<timers, bid_locks, now, granted, refunded, last_aid, orphans>>

\* end_auction after `await channel.send(...)`: the record is cleared and
\* saved; when the send raises, the exception ends the task of auction_loop
end_auction(ok) ==
    /\ tasks.loop = "sending"
    /\ IF ok
       THEN /\ data' = [data EXCEPT !.auction = NoAuction]
            /\ disk' = data'
            /\ tasks' = [loop |-> "sleeping"]
            /\ response' = Resp("end_auction", "cleared",
                                data.auction.highest_bidder, 0,
                                data.auction.highest_bid, 0)
       ELSE /\ tasks' = [loop |-> "failed"]
            /\ response' = Resp("end_auction", "raised", "", 0, 0, 0)
            /\ UNCHANGED <<data, disk>>
    /\ UNCHANGED <<timers, bid_locks, now, granted, refunded, last_aid, orphans>>

(***************************************************************************)
(* SpecSingle: the single-auction cog with two bidders.                    *)
(***************************************************************************)
SingleAmounts == {10, 20}

NextSingle ==
    \/ single_auction_start
    \/ \E u \in Users, amt \in SingleAmounts : single_bid(u, amt)
    \/ \E c \in BOOLEAN : auction_loop(c)
    \/ \E ok \in BOOLEAN : end_auction(ok)
    \/ Tick

SpecSingle == InitSingle /\ [][NextSingle]_vars

(***************************************************************************)
(* SpecUid: auctions started with and without an explicit unique id, bid   *)
(* on and settled once each by auction_close.                              *)
(***************************************************************************)
UidInputs == {{}, {DEFAULT_NEXT_AID + 1}}
UidAmounts == {10}

NextUid ==
    \/ data.next_aid \in AuctionIds /\
          \E uid \in UidInputs, dur \in Durations : auction_start(uid, dur, 0)
    \/ \E u \in Users, id \in AuctionIds, amt \in UidAmounts : auction_bid(u, id, amt)
    \/ \E id \in AuctionIds : bid_resume(id)
    \/ \E id \in AuctionIds : bid_reply_sent(id)
    \/ \E id \in AuctionIds : auction_close(id)

SpecUid == Init /\ [][NextUid]_vars

\* the positions of the item grants in all inventories
GrantSlots(d) ==
    {s \in (DOMAIN d.inventory) \X (1..MaxGrants) : s[2] \in DOMAIN d.inventory[s[1]]}

(***************************************************************************)
(* C29: every item grant carries a unique_id different from the unique_id  *)
(* of every other grant in the store, also when auction_start was given an *)
(* explicit uid.                                                           *)
(***************************************************************************)
C29_GrantIdsDistinct ==
    \A s1, s2 \in GrantSlots(data) :
        s1 # s2 =>
            data.inventory[s1[1]][s1[2]].unique_id # data.inventory[s2[1]][s2[2]].unique_id

(***************************************************************************)
(* C24: auction_reset_all with confirm = "CONFIRM" takes effect in one     *)
(* step: after it every timer task created before is cancelled, the task   *)
(* map and the lock map are empty, and the document in memory and the one  *)
(* on disk are the default state; with another confirm value the step      *)
(* changes nothing.                                                        *)
(***************************************************************************)
C24_ResetIsAtomic ==
    [][response'.op = "reset" =>
        IF response'.kind = "reset"
        THEN /\ \A i \in DOMAIN timers' : timers'[i].state # "pending"
             /\ DOMAIN timers' = DOMAIN timers
             /\ tasks' = EmptyMap
             /\ bid_locks' = EmptyMap
             /\ data' = DEFAULT_STATE
             /\ disk' = DEFAULT_STATE
             /\ load_data(disk') = DEFAULT_STATE
        ELSE /\ response'.kind = "unconfirmed"
             /\ UNCHANGED <<data, disk, tasks, timers, bid_locks, orphans>>]_vars

\* a confirmed reset hit pending timers and a lock that a bid handler held
C24_Witness ==
    /\ response.op = "reset"
    /\ response.kind = "reset"
    /\ \E i \in DOMAIN timers : timers[i].state = "cancelled"
    /\ orphans # <<>>
    /\ data = DEFAULT_STATE

\* the documents that the operation named by the crash response `r` saves
SavesOf(r, d) ==
    CASE r.kind = "bid" -> BidSaves(d, r.user, r.aid, r.amount)
      [] r.kind = "cancel" -> CancelSaves(d, r.aid)
      [] r.kind = "settle" -> SettleSaves(d, r.aid)

(***************************************************************************)
(* C25: when the process dies at any point of a save_data, the live data   *)
(* file holds the whole document it held before that save or the whole     *)
(* document being saved, never a part of one.                              *)
(***************************************************************************)
C25_LiveFileIsWholeSnapshot ==
    [][response'.op = "crash" =>
        LET saves == SavesOf(response', data)
        IN  /\ IsDocument(disk')
            /\ \E j \in 1..Len(saves) :
                  disk' \in {IF j = 1 THEN disk ELSE saves[j - 1], saves[j]}]_vars

\* a crash after os.replace: the file holds the new document
C25_Witness ==
    /\ response.op = "crash"
    /\ response.kind = "bid"
    /\ disk # data
    /\ IsDocument(disk)

(***************************************************************************)
(* C30: when the process dies between two saves of a bid, a cancellation   *)
(* or a settlement, the document it restarts from has none or all of the   *)
(* operation's effects on the ledger.                                      *)
(***************************************************************************)
C30_CrashLeavesNoneOrAll ==
    response.op = "crash" =>
        LET saves == SavesOf(response, data)
        IN  load_data(disk) \in {data, saves[Len(saves)]}

(***************************************************************************)
(* C23: when a save fails in a bid, a cancellation, a settlement, a        *)
(* balance edit or a ban, the ledger in memory after the failure equals    *)
(* the ledger before the operation.                                        *)
(***************************************************************************)
C23_FailedSaveLeavesMemory ==
    [][response'.op = "store_error" => data' = data]_vars

(***************************************************************************)
(* C22: a winner DM, a closure announcement or an outbid notice that fails *)
(* changes nothing in the ledger: after it the auction is still closed     *)
(* with the item granted to the winner, respectively the bid is still the  *)
(* top bid with the refund and the debit applied, and the failure is       *)
(* logged, not raised out of settle_auction or auction_bid.                *)
(***************************************************************************)
C22_NoticeFailureKeepsLedger ==
    [][response'.op \in {"winner_dm", "announce", "outbid_notice"} =>
        LET id == response'.aid
            auc == data'.auctions[id]
        IN  /\ response'.kind \in {"sent", "logged"}
            /\ UNCHANGED <<data, disk, granted, refunded>>
            /\ disk' = data'
            /\ response'.op \in {"winner_dm", "announce"} =>
                  /\ auc.is_closed
                  /\ auc.top_bid # NoBid =>
                        /\ GrantsOfAuction(data', id) = 1
                        /\ \E i \in DOMAIN get_inventory(data', auc.top_bid.user_id) :
                              get_inventory(data', auc.top_bid.user_id)[i].unique_id
                                  = auc.unique_id
            /\ response'.op = "outbid_notice" =>
                  /\ auc.top_bid = [user_id |-> response'.user,
                                    amount |-> response'.amount]
                  /\ get_balance(data', response'.user)
                        = STARTING_COINS - response'.amount
                  /\ get_balance(data', response'.prev) = STARTING_COINS]_vars

\* the DM to the winner failed and then the closure announcement failed too
C22_Witness ==
    /\ response.op = "announce"
    /\ response.kind = "logged"
    /\ data.auctions[response.aid].top_bid # NoBid
    /\ \E u \in Users : get_inventory(data, u) # <<>>

(***************************************************************************)
(* C31: auction_bid sends no message while it holds the lock of the        *)
(* auction: whenever the response of a bid, accepted or rejected, is being *)
(* sent, the lock of that auction is free.                                 *)
(***************************************************************************)
C31_NoSendUnderLock ==
    (/\ response.op \in {"bid", "bid_resumed"}
     /\ response.kind \in {"accepted", "invalid_or_closed", "too_low",
                           "insufficient"})
        => ~LockOf(response.aid).locked

\* a handler holds the Lock object or waits for it
InUse(l) == l.locked \/ l.waiters # <<>>

\* the number of Lock objects that bid handlers of auction `id` hold or await
LocksInUse(id) ==
    (IF id \in DOMAIN bid_locks /\ InUse(bid_locks[id]) THEN 1 ELSE 0)
    + Cardinality({i \in DOMAIN orphans : orphans[i].id = id /\ InUse(orphans[i])})

(***************************************************************************)
(* C32: at any time the bid handlers that are inside or wait for the       *)
(* critical section of one auction id all use the same Lock object, also   *)
(* when auction_reset_all runs between them.                               *)
(***************************************************************************)
C32_OneLockPerAuction ==
    \A id \in AuctionIds : LocksInUse(id) <= 1

(***************************************************************************)
(* C33: whenever a handler yields control or returns, the document on disk *)
(* equals the document in memory: every change of coins, inventories,      *)
(* auctions, next_aid and the ban list is saved in the segment that makes  *)
(* it.                                                                     *)
(***************************************************************************)
C33_DiskEqualsMemory == load_data(disk) = data

\* a member was unbanned after bids, and the saved coins and ban list agree
C33_Witness ==
    /\ response.op = "unban"
    /\ response.kind = "unbanned"
    /\ data.coins # EmptyMap
    /\ data.auctions # EmptyMap
    /\ disk.banned = {}

(***************************************************************************)
(* C34: when the top bidder of an auction raises their own bid, the raise  *)
(* is refused for insufficient funds exactly when the amount exceeds their *)
(* balance as it is before their escrow is refunded, and when it is        *)
(* accepted their balance changes by the previous amount minus the new.    *)
(***************************************************************************)
C34_SelfRaiseUsesBalanceBeforeRefund ==
    [][(/\ response'.op \in {"bid", "bid_resumed"}
        /\ response'.kind \in {"accepted", "insufficient"}
        /\ data.auctions[response'.aid].top_bid.user_id = response'.user) =>
        LET user == response'.user
            amount == response'.amount
            previous == data.auctions[response'.aid].top_bid.amount
        IN  /\ response'.kind = "insufficient" <=> amount > get_balance(data, user)
            /\ response'.kind = "accepted" =>
                  get_balance(data', user)
                      = get_balance(data, user) + previous - amount
            /\ response'.kind = "insufficient" => data' = data]_vars

\* a raise was refused that the balance with the escrow would have covered
C34_Witness ==
    /\ response.kind = "insufficient"
    /\ HasAuction(data, response.aid)
    /\ data.auctions[response.aid].top_bid.user_id = response.user
    /\ response.amount > get_balance(data, response.user)
    /\ response.amount
          <= get_balance(data, response.user)
             + data.auctions[response.aid].top_bid.amount

\* no member's balance is negative in document d
NonNegative(d) == \A u \in Users : get_balance(d, u) >= 0

(***************************************************************************)
(* C35: a bid, a cancellation or a settlement that starts with every       *)
(* balance >= 0 ends with every balance >= 0, also when one bidder bids on *)
(* several auctions.                                                       *)
(***************************************************************************)
C35_LedgerStepsKeepBalancesNonNegative ==
    [][(/\ response'.op \in {"bid", "bid_resumed", "cancel", "close"}
        /\ NonNegative(data)) => NonNegative(data')]_vars

\* a bidder whose coins are held on one auction is refused on the other
C35_Witness ==
    /\ response.kind = "insufficient"
    /\ \E id \in DOMAIN data.auctions :
          /\ id # response.aid
          /\ ~data.auctions[id].is_closed
          /\ data.auctions[id].top_bid.user_id = response.user
    /\ get_balance(data, response.user) \in 0..(response.amount - 1)

(***************************************************************************)
(* C36: a bid is accepted only while the clock is strictly before the      *)
(* end_ts of its auction, also after a restart and between end_ts and the  *)
(* run of the timer task.                                                  *)
(***************************************************************************)
C36_NoBidAcceptedAfterEnd ==
    [][response'.kind = "accepted" =>
        now < data.auctions[response'.aid].end_ts]_vars

(***************************************************************************)
(* C37: every auction that is created is eventually closed, when timer     *)
(* tasks are scheduled fairly and the clock passes its end_ts (auctions    *)
(* that end within the time the clock covers).                             *)
(***************************************************************************)
C37_EveryAuctionEventuallyClosed ==
    \A id \in AuctionIds :
        (HasAuction(data, id) /\ data.auctions[id].end_ts <= MaxTime)
            ~> (HasAuction(data, id) /\ data.auctions[id].is_closed)

(***************************************************************************)
(* C38: the lock of an auction is released on every path of a bid handler, *)
(* and while every send terminates each handler that waits for the lock    *)
(* acquires it.                                                            *)
(***************************************************************************)
C38_LockReleasedAndWaitersServed ==
    \A id \in AuctionIds :
        /\ (id \in DOMAIN bid_locks /\ bid_locks[id].locked)
              ~> ~LockOf(id).locked
        /\ \A u \in LockBidders, amt \in LockAmounts :
              (/\ id \in DOMAIN bid_locks
               /\ bid_locks[id].waiters # <<>>
               /\ Head(bid_locks[id].waiters) = [user |-> u, amount |-> amt])
                  ~> (/\ response.op = "bid_resumed"
                      /\ response.user = u
                      /\ response.aid = id
                      /\ response.amount = amt)

\* a handler waits for a lock that another holds while its rejection is sent
C38_Witness ==
    \E id \in DOMAIN bid_locks :
        bid_locks[id].locked /\ bid_locks[id].waiters # <<>>

(***************************************************************************)
(* C39: no timer task created before an auction_reset_all closes or        *)
(* settles an auction created after it, although the ids are used again:   *)
(* the task that settles an auction is the task registered for it.         *)
(***************************************************************************)
C39_OldTimersNeverSettle ==
    [][(response'.op = "timer" /\ response'.kind = "settled") =>
        \A i \in DOMAIN timers :
            (timers[i].state = "pending" /\ timers'[i].state = "done") =>
                /\ response'.aid \in DOMAIN tasks
                /\ tasks[response'.aid] = i]_vars

\* an auction with a reused id was settled by its own task while a task of
\* the auction that had this id before the reset lies cancelled
C39_Witness ==
    /\ response.op = "timer"
    /\ response.kind = "settled"
    /\ \E i \in DOMAIN timers :
          /\ timers[i].aid = response.aid
          /\ timers[i].state = "cancelled"
          /\ timers[i].wake <= now

(***************************************************************************)
(* C40: in the single-auction cog, whenever the record of an auction that  *)
(* has a highest bidder is cleared, that bidder has the pokemon in their   *)
(* inventory, whether or not the channel is there and the announcement     *)
(* succeeds.                                                               *)
(***************************************************************************)
C40_WinnerHasItemWhenCleared ==
    [][(/\ data.auction # NoAuction
        /\ data.auction.highest_bidder # ""
        /\ data'.auction = NoAuction) =>
        LET winner == data.auction.highest_bidder
        IN  /\ winner \in DOMAIN data'.inventory
            /\ \E i \in DOMAIN data'.inventory[winner] :
                  data'.inventory[winner][i] = data.auction.pokemon]_vars

====
